---- MODULE Spec2Model ----
(***************************************************************************)
(* Model of the AI hotel receptionist:                                     *)
(*   models/dialogue_manager.py  DialogueState, DialogueManager           *)
(*   models/intent_classifier.py IntentClassifier                         *)
(*   backend/api.py              the async handlers calling the manager   *)
(*   models/language_detector.py LanguageDetector                         *)
(*   models/entity_extractor.py  EntityExtractor                          *)
(*   services/booking_service.py BookingService                           *)
(*                                                                         *)
(* Text is modelled by TLA+ strings.  TLA+ strings are ASCII, so a letter  *)
(* outside ASCII is written as a marker followed by a Latin letter: "#"    *)
(* for a Cyrillic letter, "%" for a Devanagari one, "&" for a Sinhala one, *)
(* "$" for a Tamil one, "=" for a Telugu one, "~" for a Kannada one and    *)
(* "^" for a Latin letter with a diacritic.  The                           *)
(* keyword tables and the input texts use the same encoding, so            *)
(* `keyword in text` is kept, and no unmarked keyword is found inside a    *)
(* word of another script.                                                 *)
(* Confidences are in hundredths (0.95 is 95).                             *)
(***************************************************************************)
EXTENDS Integers, Sequences, FiniteSets, TLC

VARIABLES
    sessions,      \* DialogueManager.sessions: session id -> {turn_count, language, history}
    pending,       \* requests accepted by the server whose handler has not run yet
    arrived,       \* number of requests accepted so far (next request id - 1)
    log,           \* completed calls on the manager, in completion order
    now,           \* datetime.utcnow(), a logical clock that never goes back
    state,         \* one DialogueState object (the dataclass)
    settings,      \* config.settings: AI_PROVIDER and the two API keys
    classified,    \* outcome of the last IntentClassifier.classify call
    backend_calls, \* number of calls made to the external classification backend
    call,          \* one call of a function on its own: arguments, then outcome
    db             \* the database: rooms, guests and bookings, as committed

vars == <<sessions, pending, arrived, log, now, state, settings, classified, backend_calls,
          call, db>>

-----------------------------------------------------------------------------
(* Bounds of the model *)

MaxOps == 4
MaxTurns == 2
MaxClassify == 1

-----------------------------------------------------------------------------
(* Strings: str.lower() and the `in` operator *)

UpperAZ == "ABCDEFGHIJKLMNOPQRSTUVWXYZ"
LowerAZ == "abcdefghijklmnopqrstuvwxyz"

LowerChar(c) ==
    IF \E i \in 1..26 : SubSeq(UpperAZ, i, i) = c
    THEN LET i == CHOOSE j \in 1..26 : SubSeq(UpperAZ, j, j) = c
         IN  SubSeq(LowerAZ, i, i)
    ELSE c

RECURSIVE Lower(_)
Lower(s) ==
    IF Len(s) = 0 THEN ""
    ELSE LowerChar(SubSeq(s, 1, 1)) \o Lower(SubSeq(s, 2, Len(s)))

\* kw in text
Contains(kw, text) ==
    \E i \in 1..(Len(text) - Len(kw) + 1) : SubSeq(text, i, i + Len(kw) - 1) = kw

-----------------------------------------------------------------------------
(* DialogueManager._initialize_language_responses: the keys of each phrase *)
(* table.  A phrase is identified by its table and its key.                *)

\* the Latvian table written without its cancellation phrase
language_responses_incomplete ==
    [en |-> {"greeting", "room_types", "amenities", "check_in", "booking_help",
             "cancellation", "breakfast", "pets", "parking", "wifi",
             "price_standard", "price_deluxe", "price_suite", "room_availability",
             "room_features", "room_size", "payment_options", "deposit_required",
             "modify_booking", "cancel_booking", "early_checkin", "late_checkout",
             "extra_bed", "child_policy", "group_booking", "long_stay",
             "special_occasion", "airport_transfer", "nearest_attractions",
             "conference_rooms", "loyalty_program", "covid_safety", "complaint"},
     lv |-> {"greeting", "room_types", "amenities", "check_in", "booking_help",
             "price_standard", "price_deluxe", "price_suite",
             "room_availability", "payment_options"},
     ru |-> {"greeting", "room_types", "amenities", "check_in", "booking_help",
             "cancellation", "price_standard", "price_deluxe", "price_suite",
             "room_availability", "payment_options"},
     hi |-> {"greeting", "room_types", "amenities", "check_in", "booking_help",
             "cancellation", "price_standard", "price_deluxe", "price_suite",
             "room_availability", "payment_options"},
     si |-> {"greeting", "room_types", "amenities", "check_in", "booking_help",
             "cancellation", "breakfast", "pets", "parking", "wifi"},
     fr |-> {"greeting", "room_types", "amenities", "check_in", "booking_help",
             "cancellation", "breakfast", "pets", "parking", "wifi"},
     it |-> {"greeting", "room_types", "amenities", "check_in", "booking_help",
             "cancellation", "breakfast", "pets", "parking", "wifi"},
     de |-> {"greeting", "room_types", "amenities", "check_in", "booking_help",
             "cancellation", "breakfast", "pets", "parking", "wifi"},
     es |-> {"greeting", "room_types", "amenities", "check_in", "booking_help",
             "cancellation", "breakfast", "pets", "parking", "wifi"}]

language_responses ==
    [en |-> {"greeting", "room_types", "amenities", "check_in", "booking_help",
             "cancellation", "breakfast", "pets", "parking", "wifi",
             "price_standard", "price_deluxe", "price_suite", "room_availability",
             "room_features", "room_size", "payment_options", "deposit_required",
             "modify_booking", "cancel_booking", "early_checkin", "late_checkout",
             "extra_bed", "child_policy", "group_booking", "long_stay",
             "special_occasion", "airport_transfer", "nearest_attractions",
             "conference_rooms", "loyalty_program", "covid_safety", "complaint"},
     lv |-> {"greeting", "room_types", "amenities", "check_in", "booking_help",
             "cancellation", "price_standard", "price_deluxe", "price_suite",
             "room_availability", "payment_options"},
     ru |-> {"greeting", "room_types", "amenities", "check_in", "booking_help",
             "cancellation", "price_standard", "price_deluxe", "price_suite",
             "room_availability", "payment_options"},
     hi |-> {"greeting", "room_types", "amenities", "check_in", "booking_help",
             "cancellation", "price_standard", "price_deluxe", "price_suite",
             "room_availability", "payment_options"},
     si |-> {"greeting", "room_types", "amenities", "check_in", "booking_help",
             "cancellation", "breakfast", "pets", "parking", "wifi"},
     fr |-> {"greeting", "room_types", "amenities", "check_in", "booking_help",
             "cancellation", "breakfast", "pets", "parking", "wifi"},
     it |-> {"greeting", "room_types", "amenities", "check_in", "booking_help",
             "cancellation", "breakfast", "pets", "parking", "wifi"},
     de |-> {"greeting", "room_types", "amenities", "check_in", "booking_help",
             "cancellation", "breakfast", "pets", "parking", "wifi"},
     es |-> {"greeting", "room_types", "amenities", "check_in", "booking_help",
             "cancellation", "breakfast", "pets", "parking", "wifi"}]

-----------------------------------------------------------------------------
(* DialogueManager.detect_language *)

language_keywords ==
    << [lang |-> "lv", keywords |-> <<"laipni", "jums", "pal^idz^et", "viesn^ica">>],
       [lang |-> "ru", keywords |-> <<"#p#r#i#v#e#t", "#p#o#m#o#s#c#h", "#o#t#e#l", "#n#o#m#e#r">>],
       [lang |-> "hi", keywords |-> <<"%n%a%m%a%s%t%e", "%h%o%t%a%l", "%k%a%m%a%r%a", "%m%a%d%a%d">>],
       [lang |-> "si", keywords |-> <<"&h&o&t&a&l&a&y&a", "&k&a&m&a&r&a&y&a", "&s&a&h&a&y&a">>],
       [lang |-> "fr", keywords |-> <<"bonjour", "h^otel", "chambre", "aide">>],
       [lang |-> "it", keywords |-> <<"ciao", "hotel", "camera", "aiuto">>],
       [lang |-> "de", keywords |-> <<"hotel", "zimmer", "hilfe", "hallo">>],
       [lang |-> "es", keywords |-> <<"hola", "hotel", "habitaci^on", "ayuda">>] >>

AnyKeyword(keywords, text) ==
    \E k \in 1..Len(keywords) : Contains(keywords[k], text)

detect_language(text) ==
    LET text_lower == Lower(text)
        hits == {i \in 1..Len(language_keywords) :
                    AnyKeyword(language_keywords[i].keywords, text_lower)}
    IN  IF hits = {} THEN "en"
        ELSE language_keywords[CHOOSE i \in hits : \A j \in hits : i <= j].lang

-----------------------------------------------------------------------------
(* DialogueManager.detect_intent: the keyword table, in enumeration order *)

intents ==
    << [intent |-> "greeting", keywords |-> <<"hello", "hi", "hey", "good morning", "good evening", "greetings", "#p#r#i#v#e#t", "%h%a%i%l%o", "hola", "bonjour">>],
       [intent |-> "room_inquiry", keywords |-> <<"room", "rooms", "room types", "what rooms", "types of rooms", "room categories", "#n#o#m#e#r", "%k%a%m%a%r%a", "habitaci^on">>],
       [intent |-> "price_inquiry", keywords |-> <<"price", "cost", "how much", "rate", "pricing", "charges", "tariff", "fees", "#t#s#e#n#a", "%k%i%m%a%t", "precio">>],
       [intent |-> "room_availability", keywords |-> <<"available", "availability", "vacant", "free rooms", "check availability", "any rooms", "#d#o#s#t#u#p#n#o#s#t">>],
       [intent |-> "amenities", keywords |-> <<"amenities", "facilities", "services", "features", "what do you have", "what's included", "#u#d#o#b#s#t#v#a", "%s%u%v%i%d%h%a%e%n">>],
       [intent |-> "check_in_out", keywords |-> <<"check in", "check out", "timing", "time", "what time", "when can i", "#z#a#e#z#d", "#v#y#e#z#d">>],
       [intent |-> "booking", keywords |-> <<"book", "reserve", "reservation", "i want to book", "make a booking", "#b#r#o#n#i#r#o#v#a#t", "%b%u%k">>],
       [intent |-> "cancellation", keywords |-> <<"cancel", "cancellation policy", "cancel booking", "refund", "#o#t#m#e#n#a", "%r%a%d%d">>],
       [intent |-> "modify_booking", keywords |-> <<"change", "modify", "reschedule", "update booking", "change dates", "edit booking", "#i#z#m#e#n#i#t">>],
       [intent |-> "breakfast", keywords |-> <<"breakfast", "food", "dining", "meal", "#z#a#v#t#r#a#k", "%n%a%s%h%t%a">>],
       [intent |-> "pets", keywords |-> <<"pet", "dog", "cat", "animal", "bring pet", "#p#i#t#o#m#e#t#s", "%p%a%l%t%u">>],
       [intent |-> "parking", keywords |-> <<"parking", "park", "car", "vehicle", "#p#a#r#k#o#v#k#a", "%p%a%r%k%i%n%g">>],
       [intent |-> "wifi", keywords |-> <<"wifi", "internet", "connection", "#i#n#t#e#r#n#e#t", "%v%a%i%f%a%i">>],
       [intent |-> "payment", keywords |-> <<"payment", "pay", "how to pay", "payment method", "deposit", "advance", "#o#p#l#a#t#a", "%b%h%u%g%t%a%n">>],
       [intent |-> "extra_bed", keywords |-> <<"extra bed", "additional bed", "cot", "rollaway", "#d#o#p#o#l#n#i#t#e#l#n#a#y#a #k#r#o#v#a#t", "%a%t%i%r%i%k%t %b%i%s%t%a%r">>],
       [intent |-> "child_policy", keywords |-> <<"child", "kids", "children", "baby", "infant", "#d#e#t#i", "%b%a%c%h%c%h%e">>],
       [intent |-> "early_checkin", keywords |-> <<"early check in", "arrive early", "before 2 pm", "#r#a#n#n#i#j #z#a#e#z#d">>],
       [intent |-> "late_checkout", keywords |-> <<"late check out", "extend stay", "later checkout", "#p#o#z#d#n#i#j #v#y#e#z#d">>],
       [intent |-> "group_booking", keywords |-> <<"group", "multiple rooms", "bulk booking", "5 rooms", "#g#r#u#p#p#o#v#o#e #b#r#o#n#i#r#o#v#a#n#i#e">>],
       [intent |-> "long_stay", keywords |-> <<"long stay", "extended stay", "weekly", "monthly", "#m#n#o#g#o#d#n#e#v#n#o#e #p#r#e#b#y#v#a#n#i#e">>],
       [intent |-> "room_features", keywords |-> <<"room features", "what's in the room", "room details", "facilities in room">>],
       [intent |-> "location", keywords |-> <<"location", "where", "address", "nearby", "attractions", "#m#e#s#t#o#p#o#l#o#z#h#e#n#i#e">>],
       [intent |-> "airport_transfer", keywords |-> <<"airport", "pickup", "drop", "shuttle", "transfer", "#t#r#a#n#s#p#o#r#t">>],
       [intent |-> "special_occasion", keywords |-> <<"birthday", "anniversary", "honeymoon", "celebration", "special occasion">>],
       [intent |-> "complaint", keywords |-> <<"complaint", "problem", "issue", "not happy", "disappointed", "#z#h#a#l#o#b#a">>],
       [intent |-> "discount", keywords |-> <<"discount", "offer", "deal", "promotion", "coupon", "#s#k#i#d#k#a", "%c%h%h%u%t">>] >>

\* sum(1 for keyword in keywords if keyword in message_lower)
matches(keywords, message_lower) ==
    Cardinality({k \in 1..Len(keywords) : Contains(keywords[k], message_lower)})

Min(a, b) == IF a <= b THEN a ELSE b

\* the loop with "matches >= max_matches": a later intent with an equal
\* count overwrites the earlier one
RECURSIVE detect_intent_loop_last_wins(_, _, _)
detect_intent_loop_last_wins(i, acc, message_lower) ==
    IF i > Len(intents) THEN acc
    ELSE LET m == matches(intents[i].keywords, message_lower)
         IN  IF m >= acc.max_matches /\ m > 0
             THEN detect_intent_loop_last_wins(i + 1,
                      [intent |-> intents[i].intent,
                       confidence |-> Min(95, 70 + m * 10),
                       max_matches |-> m],
                      message_lower)
             ELSE detect_intent_loop_last_wins(i + 1, acc, message_lower)

\* the loop of detect_intent from table entry i on; acc holds
\* detected_intent, confidence and max_matches
RECURSIVE detect_intent_loop(_, _, _)
detect_intent_loop(i, acc, message_lower) ==
    IF i > Len(intents) THEN acc
    ELSE LET m == matches(intents[i].keywords, message_lower)
         IN  IF m > acc.max_matches
             THEN detect_intent_loop(i + 1,
                      [intent |-> intents[i].intent,
                       confidence |-> Min(95, 70 + m * 10),
                       max_matches |-> m],
                      message_lower)
             ELSE detect_intent_loop(i + 1, acc, message_lower)

detect_intent(message, language) ==
    LET r == detect_intent_loop(1,
                 [intent |-> "general_inquiry", confidence |-> 50, max_matches |-> 0],
                 Lower(message))
    IN  [intent |-> r.intent, confidence |-> r.confidence]

-----------------------------------------------------------------------------
(* DialogueManager.generate_response.  A message is a sequence of parts,   *)
(* each a phrase of a table or a literal piece of text (table "").         *)

Phrase(table, key) == <<[table |-> table, key |-> key]>>

Literal(text) == <<[table |-> "", key |-> text]>>

\* responses.get(key, default)
Get(table, key, default) ==
    IF key \in language_responses[table] THEN Phrase(table, key) ELSE default

\* the keys that building response_map reads with responses[key]
subscripted_keys ==
    {"greeting", "room_types", "amenities", "check_in", "booking_help", "cancellation"}

response_map(t) ==
    [greeting          |-> Phrase(t, "greeting"),
     room_inquiry      |-> Phrase(t, "room_types"),
     price_inquiry     |-> Get(t, "price_standard", Phrase(t, "room_types")) \o Literal("\n")
                             \o Get(t, "price_deluxe", Literal("")) \o Literal("\n")
                             \o Get(t, "price_suite", Literal("")),
     room_availability |-> Get(t, "room_availability", Phrase(t, "booking_help")),
     amenities         |-> Phrase(t, "amenities"),
     check_in_out      |-> Phrase(t, "check_in"),
     booking           |-> Phrase(t, "booking_help"),
     cancellation      |-> Phrase(t, "cancellation"),
     modify_booking    |-> Get(t, "modify_booking", Phrase(t, "booking_help")),
     breakfast         |-> Get(t, "breakfast", Phrase(t, "amenities")),
     pets              |-> Get(t, "pets", Phrase(t, "amenities")),
     parking           |-> Get(t, "parking", Phrase(t, "amenities")),
     wifi              |-> Get(t, "wifi", Phrase(t, "amenities")),
     payment           |-> Get(t, "payment_options", Phrase(t, "booking_help")),
     extra_bed         |-> Get(t, "extra_bed", Phrase(t, "booking_help")),
     child_policy      |-> Get(t, "child_policy", Phrase(t, "booking_help")),
     early_checkin     |-> Get(t, "early_checkin", Phrase(t, "check_in")),
     late_checkout     |-> Get(t, "late_checkout", Phrase(t, "check_in")),
     group_booking     |-> Get(t, "group_booking", Phrase(t, "booking_help")),
     long_stay         |-> Get(t, "long_stay", Phrase(t, "booking_help")),
     room_features     |-> Get(t, "room_features", Phrase(t, "room_types")),
     location          |-> Get(t, "nearest_attractions", Phrase(t, "greeting")),
     airport_transfer  |-> Get(t, "airport_transfer", Phrase(t, "amenities")),
     special_occasion  |-> Get(t, "special_occasion", Phrase(t, "booking_help")),
     complaint         |-> Get(t, "complaint",
                               Literal("I apologize for any inconvenience. How can I help resolve this?")),
     discount          |-> Get(t, "loyalty_program", Phrase(t, "booking_help")),
     general_inquiry   |-> Phrase(t, "greeting")]

\* the table read with self.language_responses[language]: no default table
generate_response_no_default_table(intent, language) ==
    IF language \notin DOMAIN language_responses
    THEN [raised |-> "KeyError", message |-> <<>>]
    ELSE IF ~(subscripted_keys \subseteq language_responses[language])
    THEN [raised |-> "KeyError", message |-> <<>>]
    ELSE [raised |-> "none",
          message |-> IF intent \in DOMAIN response_map(language)
                      THEN response_map(language)[intent]
                      ELSE Phrase(language, "greeting")]

\* raised is "none" when the call returns, else the exception it raises
generate_response(intent, language) ==
    LET t == IF language \in DOMAIN language_responses THEN language ELSE "en"
    IN  IF ~(subscripted_keys \subseteq language_responses[t])
        THEN [raised |-> "KeyError", message |-> <<>>]
        ELSE [raised |-> "none",
              message |-> IF intent \in DOMAIN response_map(t)
                          THEN response_map(t)[intent]
                          ELSE Phrase(t, "greeting")]

-----------------------------------------------------------------------------
(* DialogueManager.process_message and clear_session *)

\* the session created anew on every message
lookup_or_create_always(s, session_id, language) ==
    [k \in DOMAIN s \cup {session_id} |->
        IF k = session_id
        THEN [turn_count |-> 0, language |-> language, history |-> <<>>]
        ELSE s[k]]

\* the registry after `if session_id not in self.sessions: ...`
lookup_or_create(s, session_id, language) ==
    IF session_id \notin DOMAIN s
    THEN s @@ (session_id :> [turn_count |-> 0, language |-> language, history |-> <<>>])
    ELSE s

\* the record put at the head of the history
record_turn_prepend(s, session_id, user_message, response_message, intent, timestamp) ==
    LET s1 == [s EXCEPT ![session_id].turn_count = @ + 1]
    IN  [s1 EXCEPT ![session_id].history =
            <<[user |-> user_message, agent |-> response_message,
               intent |-> intent, timestamp |-> timestamp]>> \o @]

\* the history assigned instead of appended to
record_turn_assign(s, session_id, user_message, response_message, intent, timestamp) ==
    LET s1 == [s EXCEPT ![session_id].turn_count = @ + 1]
    IN  [s1 EXCEPT ![session_id].history =
            <<[user |-> user_message, agent |-> response_message,
               intent |-> intent, timestamp |-> timestamp]>>]

\* the registry after the increment and the append
record_turn(s, session_id, user_message, response_message, intent, timestamp) ==
    LET s1 == [s EXCEPT ![session_id].turn_count = @ + 1]
    IN  [s1 EXCEPT ![session_id].history =
            Append(@, [user |-> user_message, agent |-> response_message,
                       intent |-> intent, timestamp |-> timestamp])]

NoResponse == [message |-> <<>>]

\* the three analysis steps that precede the session update
analyse(user_message) ==
    LET language == detect_language(user_message)
        intent_data == detect_intent(user_message, language)
    IN  [language |-> language,
         intent_data |-> intent_data,
         generated |-> generate_response(intent_data.intent, language)]

\* the response built from the turn_count read before the increment
process_message_with_stale_count(a, s, user_message, session_id, timestamp) ==
    IF a.generated.raised # "none"
    THEN [sessions |-> s, raised |-> a.generated.raised, response |-> NoResponse]
    ELSE LET s1 == lookup_or_create(s, session_id, a.language)
             s2 == record_turn(s1, session_id, user_message, a.generated.message,
                               a.intent_data.intent, timestamp)
         IN  [sessions |-> s2,
              raised |-> "none",
              response |-> [message |-> a.generated.message,
                            intent |-> a.intent_data.intent,
                            confidence |-> a.intent_data.confidence,
                            language |-> a.language,
                            session_id |-> session_id,
                            turn_count |-> s1[session_id].turn_count,
                            state |-> "active",
                            missing_slots |-> <<>>]]

process_message_with(a, s, user_message, session_id, timestamp) ==
    IF a.generated.raised # "none"
    THEN [sessions |-> s, raised |-> a.generated.raised, response |-> NoResponse]
    ELSE LET s1 == lookup_or_create(s, session_id, a.language)
             s2 == record_turn(s1, session_id, user_message, a.generated.message,
                               a.intent_data.intent, timestamp)
         IN  [sessions |-> s2,
              raised |-> "none",
              response |-> [message |-> a.generated.message,
                            intent |-> a.intent_data.intent,
                            confidence |-> a.intent_data.confidence,
                            language |-> a.language,
                            session_id |-> session_id,
                            turn_count |-> s2[session_id].turn_count,
                            state |-> "active",
                            missing_slots |-> <<>>]]

process_message(s, user_message, session_id, timestamp) ==
    process_message_with(analyse(user_message), s, user_message, session_id, timestamp)

\* the counter reset, the session kept
clear_session_reset_count(s, session_id) ==
    IF session_id \in DOMAIN s
    THEN [sessions |-> [s EXCEPT ![session_id].turn_count = 0], raised |-> "none"]
    ELSE [sessions |-> s, raised |-> "none"]

\* del without the membership test
clear_session_unguarded(s, session_id) ==
    IF session_id \in DOMAIN s
    THEN [sessions |-> [k \in DOMAIN s \ {session_id} |-> s[k]], raised |-> "none"]
    ELSE [sessions |-> s, raised |-> "KeyError"]

\* the session left in the registry
clear_session_noop(s, session_id) ==
    [sessions |-> s, raised |-> "none"]

\* the whole registry emptied
clear_session_all(s, session_id) ==
    [sessions |-> <<>>, raised |-> "none"]

clear_session(s, session_id) ==
    IF session_id \in DOMAIN s
    THEN [sessions |-> [k \in DOMAIN s \ {session_id} |-> s[k]], raised |-> "none"]
    ELSE [sessions |-> s, raised |-> "none"]

-----------------------------------------------------------------------------
(* DialogueState.add_turn *)

add_turn(st, user_message, agent_response, detected_intent, timestamp) ==
    LET appended == [st EXCEPT !.conversation_history =
                        Append(@, [turn |-> st.turn_count,
                                   user |-> user_message,
                                   agent |-> agent_response,
                                   intent |-> detected_intent,
                                   timestamp |-> timestamp])]
    IN  [appended EXCEPT !.turn_count = @ + 1]

-----------------------------------------------------------------------------
(* Inputs *)

SessionIds == {"s1", "s2"}

\* messages sent to the sessions: English with booking keywords, and a
\* message with Italian marker words and no intent keyword
SessionTexts == {"I want to book a room", "ciao hotel"}

\* message given to DialogueState.add_turn
AddTurnTexts == {"Hello"}

\* messages for the single-turn pipeline: empty, no keyword at all, one per
\* phrase table, and one per kind of entry of the response map
PipelineTexts ==
    {"", "xyzzy", "Hello", "I want to book a room", "ciao hotel",
     "laipni", "#p#r#i#v#e#t", "%n%a%m%a%s%t%e", "&h&o&t&a&l&a&y&a",
     "bonjour", "hallo zimmer", "hola",
     "what is the price", "is my dog allowed", "where is the h^otel",
     "i have a complaint", "%k%a%m%a%r%a %k%i%m%a%t", "any discount"}

AllTexts == SessionTexts \cup AddTurnTexts \cup PipelineTexts

\* the analysis of each input text, computed once
analysis == [t \in AllTexts |-> analyse(t)]

NoOutcome == [kind |-> "unused", error |-> "", object |-> <<>>]

NoClassification ==
    [calls |-> 0, text |-> "", outcome |-> NoOutcome, invoked |-> FALSE,
     result |-> [method |-> "none"]]

NoSettings == [AI_PROVIDER |-> "none", OPENAI_API_KEY |-> FALSE, ANTHROPIC_API_KEY |-> FALSE]

NewDialogueState == [conversation_history |-> <<>>, turn_count |-> 0]

\* the database with its tables created and no row in them
NoDb == [rooms |-> <<>>, guests |-> <<>>, bookings |-> <<>>, calls |-> 0,
         last |-> [op |-> "none", raised |-> "none"]]

\* no function has been called on its own
NoCall == [fn |-> "none", args |-> <<>>, done |-> FALSE, raised |-> "none", value |-> <<>>]

-----------------------------------------------------------------------------
(* The server: backend/api.py.  Every handler is a coroutine of one event  *)
(* loop and calls the manager without awaiting inside the call, so a call  *)
(* on the manager runs from start to end before another handler runs.      *)

Clears(l) == Cardinality({i \in 1..Len(l) : l[i].op = "clear_session"})

\* requests accepted, sessions cleared, turns added and clock ticks so far
Ops == arrived + Clears(log) + state.turn_count + now

\* a request for POST /chat is accepted; its handler has not run yet
Arrive(session_id, message) ==
    /\ Ops < MaxOps
    /\ arrived' = arrived + 1
    /\ pending' = pending \cup {[id |-> arrived + 1, session_id |-> session_id, message |-> message]}
    /\ UNCHANGED <<sessions, log, now, state, settings, classified, backend_calls, call, db>>

\* the handler of request r runs: chat -> dialogue_manager.process_message
Chat(r, texts) ==
    /\ r \in pending
    /\ r.message \in texts
    /\ LET res == process_message_with(analysis[r.message], sessions, r.message, r.session_id, now)
       IN  /\ sessions' = res.sessions
           /\ log' = Append(log, [op |-> "process_message", id |-> r.id,
                                  session_id |-> r.session_id, message |-> r.message,
                                  raised |-> res.raised, response |-> res.response])
    /\ pending' = pending \ {r}
    /\ UNCHANGED <<arrived, now, state, settings, classified, backend_calls, call, db>>

\* DELETE /session/{session_id} -> dialogue_manager.clear_session
ClearSession(session_id) ==
    /\ Ops < MaxOps
    /\ LET res == clear_session(sessions, session_id)
       IN  /\ sessions' = res.sessions
           /\ log' = Append(log, [op |-> "clear_session", id |-> 0,
                                  session_id |-> session_id, message |-> "",
                                  raised |-> res.raised, response |-> NoResponse])
    /\ UNCHANGED <<pending, arrived, now, state, settings, classified, backend_calls, call, db>>

\* state.add_turn(...) on the DialogueState object
AddTurn(user_message) ==
    /\ Ops < MaxOps
    /\ state' = add_turn(state, user_message,
                         analysis[user_message].generated.message,
                         analysis[user_message].intent_data.intent, now)
    /\ UNCHANGED <<sessions, pending, arrived, log, now, settings, classified, backend_calls, call, db>>

\* time passes: a later datetime.utcnow() returns a later instant
Tick ==
    /\ Ops < MaxOps
    /\ now' = now + 1
    /\ UNCHANGED <<sessions, pending, arrived, log, state, settings, classified, backend_calls, call,
                   db>>

Init ==
    /\ sessions = <<>>
    /\ pending = {}
    /\ arrived = 0
    /\ log = <<>>
    /\ now = 0
    /\ state = NewDialogueState
    /\ settings = NoSettings
    /\ classified = NoClassification
    /\ backend_calls = 0
    /\ call = NoCall
    /\ db = NoDb

Next ==
    \/ \E sid \in SessionIds, m \in SessionTexts : Arrive(sid, m)
    \/ \E r \in pending : Chat(r, SessionTexts)
    \/ \E sid \in SessionIds : ClearSession(sid)
    \/ \E m \in AddTurnTexts : AddTurn(m)
    \/ Tick

Spec == Init /\ [][Next]_vars

-----------------------------------------------------------------------------
(* Single calls of process_message on the manager, as the tests make them, *)
(* over the wider set of messages                                          *)

Turn(session_id, message) ==
    /\ Len(log) < MaxTurns
    /\ LET res == process_message_with(analysis[message], sessions, message, session_id, now)
       IN  /\ sessions' = res.sessions
           /\ log' = Append(log, [op |-> "process_message", id |-> Len(log) + 1,
                                  session_id |-> session_id, message |-> message,
                                  raised |-> res.raised, response |-> res.response])
    /\ UNCHANGED <<pending, arrived, now, state, settings, classified, backend_calls, call, db>>

NextPipeline == \E sid \in SessionIds, m \in PipelineTexts : Turn(sid, m)

SpecPipeline == Init /\ [][NextPipeline]_vars

-----------------------------------------------------------------------------
(* Reading the log of completed calls *)

\* positions of the calls made for session id sid
EventsOf(l, sid) == {i \in 1..Len(l) : l[i].session_id = sid}

\* positions of the calls for sid that come before position j
EarlierOf(l, sid, j) == {i \in EventsOf(l, sid) : i < j}

Latest(positions) == CHOOSE i \in positions : \A k \in positions : k <= i

IsProcess(e) == e.op = "process_message"

IsClear(e) == e.op = "clear_session"

\* the step appends one completed call to the log
Completes == Len(log') = Len(log) + 1

ResponseKeys ==
    {"message", "intent", "confidence", "language", "session_id", "turn_count",
     "state", "missing_slots"}

-----------------------------------------------------------------------------
(* Properties *)

\* C1: in every reachable state, the turn_count of every session of the
\* registry equals the number of records of its history, and the turn_count
\* of the DialogueState object equals the length of its conversation_history.
C1_TurnCountIsHistoryLength ==
    /\ \A sid \in DOMAIN sessions :
          sessions[sid].turn_count = Len(sessions[sid].history)
    /\ state.turn_count = Len(state.conversation_history)

\* a session with two turns made after a clear, and a DialogueState with a turn
C1_Witness ==
    /\ \E sid \in DOMAIN sessions :
          /\ sessions[sid].turn_count = 2
          /\ \E i \in EventsOf(log, sid) : IsClear(log[i])
    /\ state.turn_count = 1

\* C2: a process_message call returns 1 when no call for its id precedes it,
\* and one more than the previous process_message call for the same id when
\* no clear_session of that id lies between the two.
C2_TurnCountStepsByOne ==
    \A j \in 1..Len(log) :
        IsProcess(log[j]) =>
            LET before == EarlierOf(log, log[j].session_id, j)
            IN  IF before = {}
                THEN log[j].response.turn_count = 1
                ELSE IsProcess(log[Latest(before)]) =>
                        log[j].response.turn_count
                            = log[Latest(before)].response.turn_count + 1

\* three calls in a row for one id, the last returning 3
C2_Witness ==
    \E j \in 1..Len(log) :
        /\ IsProcess(log[j])
        /\ log[j].response.turn_count = 3
        /\ \A i \in EarlierOf(log, log[j].session_id, j) : IsProcess(log[i])

\* C3: the process_message call that follows a clear_session of the same id
\* returns turn_count 1 and leaves a history holding only the new turn.
C3_RestartsAfterClear ==
    [][\A sid \in SessionIds :
          (/\ Completes
           /\ IsProcess(log'[Len(log')])
           /\ log'[Len(log')].session_id = sid
           /\ EventsOf(log, sid) # {}
           /\ IsClear(log[Latest(EventsOf(log, sid))]))
          => /\ log'[Len(log')].response.turn_count = 1
             /\ sessions'[sid].turn_count = 1
             /\ Len(sessions'[sid].history) = 1
             /\ sessions'[sid].history[1].user = log'[Len(log')].message]_vars

\* two turns, a clear, then a turn, all for one id
C3_Witness ==
    \E sid \in SessionIds :
        LET ev == EventsOf(log, sid)
        IN  /\ Cardinality(ev) = 4
            /\ IsProcess(log[Latest(ev)])
            /\ IsClear(log[Latest(ev \ {Latest(ev)})])
            /\ \E i \in ev : IsProcess(log[i]) /\ log[i].response.turn_count = 2

\* C4: clear_session raises nothing, leaves the id out of the registry, and
\* leaves the registry as it was when the id was not in it.
C4_ClearRemovesAndIsIdempotent ==
    [][\A sid \in SessionIds :
          (/\ Completes
           /\ IsClear(log'[Len(log')])
           /\ log'[Len(log')].session_id = sid)
          => /\ log'[Len(log')].raised = "none"
             /\ sid \notin DOMAIN sessions'
             /\ (sid \notin DOMAIN sessions => sessions' = sessions)]_vars

\* an id cleared twice in a row after a turn
C4_Witness ==
    /\ \E sid \in SessionIds :
          LET ev == EventsOf(log, sid)
          IN  /\ Cardinality(ev) = 3
              /\ IsClear(log[Latest(ev)])
              /\ IsClear(log[Latest(ev \ {Latest(ev)})])
              /\ \E i \in ev : IsProcess(log[i])
    /\ Len(log) = 3

\* C5: an id is in the registry exactly when the latest completed call for
\* it is a process_message.
C5_PresentIffTurnSinceLastClear ==
    \A sid \in SessionIds :
        sid \in DOMAIN sessions
            <=> /\ EventsOf(log, sid) # {}
                /\ IsProcess(log[Latest(EventsOf(log, sid))])

\* one id cleared and still absent after later turns of the other id, which
\* is present
C5_Witness ==
    \E a \in SessionIds, b \in SessionIds :
        /\ a \in DOMAIN sessions
        /\ b \notin DOMAIN sessions
        /\ \E i \in EventsOf(log, b), j \in EventsOf(log, a) :
              /\ IsClear(log[i])
              /\ i < j
              /\ \E k \in EventsOf(log, b) : k < i /\ IsProcess(log[k])

\* C6: once every request accepted for an id has completed, and the id was
\* never cleared, the N completed turns left turn_count N and N history
\* records, and their responses carry the turn counts 1..N, whatever the
\* order in which the handlers of the requests in flight ran.
C6_NoLostUpdate ==
    \A sid \in SessionIds :
        LET done == EventsOf(log, sid)
            N == Cardinality(done)
        IN  (/\ N > 0
             /\ \A r \in pending : r.session_id # sid
             /\ \A i \in done : IsProcess(log[i]))
            => /\ sid \in DOMAIN sessions
               /\ sessions[sid].turn_count = N
               /\ Len(sessions[sid].history) = N
               /\ {log[i].response.turn_count : i \in done} = 1..N

\* three requests for one id were in flight together (the one accepted last
\* completed first) and all three have completed
C6_Witness ==
    \E sid \in SessionIds :
        LET done == EventsOf(log, sid)
        IN  /\ Cardinality(done) = 3
            /\ pending = {}
            /\ \A i \in done : IsProcess(log[i])
            /\ \A i \in done : \A k \in done : k < i => log[i].id < log[k].id

\* C7: a call on the manager for one id leaves every other id as it was:
\* in the registry or not, and with the same turn_count, language and history.
C7_OtherSessionsUnchanged ==
    [][\A sid \in SessionIds :
          (Completes /\ log'[Len(log')].session_id # sid)
          => /\ (sid \in DOMAIN sessions') <=> (sid \in DOMAIN sessions)
             /\ sid \in DOMAIN sessions => sessions'[sid] = sessions[sid]]_vars

\* an id with a turn made and a request in flight, while the other id, which
\* had a turn too, has just been cleared
C7_Witness ==
    \E a \in SessionIds, b \in SessionIds :
        /\ a # b
        /\ a \in DOMAIN sessions
        /\ \E r \in pending : r.session_id = a
        /\ Len(log) > 0
        /\ IsClear(log[Len(log)])
        /\ log[Len(log)].session_id = b
        /\ \E i \in EventsOf(log, b) : IsProcess(log[i])

\* C8: every process_message call returns, for every message and id, and
\* its response carries message, intent, confidence, language, session_id,
\* turn_count, state and missing_slots, session_id being the id passed in.
C8_AlwaysStructuredResponse ==
    \A j \in 1..Len(log) :
        IsProcess(log[j]) =>
            /\ log[j].raised = "none"
            /\ DOMAIN log[j].response = ResponseKeys
            /\ log[j].response.session_id = log[j].session_id
            /\ Len(log[j].response.message) > 0

\* the empty message and a message with no keyword of any table have both
\* been processed
C8_Witness ==
    /\ Len(log) = 2
    /\ log[1].message = ""
    /\ log[2].message = "xyzzy"
    /\ log[2].response.turn_count = 2

-----------------------------------------------------------------------------
(* IntentClassifier.INTENT_PATTERNS, in table order.  A pattern is a       *)
(* sequence of groups separated by \s+; a group is a set of alternatives   *)
(* (an alternative with \s+ inside is written with one blank) and may be   *)
(* optional.  Every pattern is anchored by \b at both ends.  The texts     *)
(* classified are ASCII with single blanks, on which the alternatives in   *)
(* other scripts never match.                                              *)

G(alts) == [alts |-> alts, optional |-> FALSE]

Opt(alts) == [alts |-> alts, optional |-> TRUE]

INTENT_PATTERNS ==
    << [intent |-> "greeting", patterns |-> <<
           <<G({"hello", "hi", "hey", "good morning", "good afternoon", "good evening",
                "namaste", "vanakkam"})>>,
           <<G({"%n%a%m%a%s%t%e", "%h%a%i%l%o"})>>,
           <<G({"$v$a$n$a$k$k$a$m", "$h$a$l$o"})>> >>],
       [intent |-> "room_booking", patterns |-> <<
           <<G({"book", "reserve", "want", "need"}), Opt({"a"}), G({"room", "accommodation"})>>,
           <<G({"room", "%k%a%m%a%r%a", "$a$r$a$i"}),
             G({"booking", "%b%u%k%i%n%g", "$p$a$t$i$v$u"})>>,
           <<G({"check in", "stay"})>> >>],
       [intent |-> "room_inquiry", patterns |-> <<
           <<G({"available", "availability"}), G({"room", "%k%a%m%a%r%a"})>>,
           <<Opt({"room"}), G({"types", "price", "rate", "cost"})>>,
           <<G({"what", "which", "how much"}), G({"rooms", "room"})>> >>],
       [intent |-> "dining_reservation", patterns |-> <<
           <<G({"dining", "dinner", "lunch", "breakfast", "restaurant"}),
             G({"reservation", "booking"})>>,
           <<G({"table", "reserve", "book"}), Opt({"for"}), G({"dinner", "lunch", "breakfast"})>>,
           <<G({"%b%h%o%j%a%n", "%k%h%a%n%a"}), G({"%b%u%k%i%n%g"})>> >>],
       [intent |-> "event_booking", patterns |-> <<
           <<G({"party hall", "event hall", "conference room", "banquet"})>>,
           <<G({"book", "rent", "need"}), G({"hall", "venue"})>>,
           <<G({"wedding", "birthday", "corporate"}), G({"event", "party"})>> >>],
       [intent |-> "information_request", patterns |-> <<
           <<G({"tell me", "information", "details", "know"}), G({"about"})>>,
           <<G({"what", "where", "when", "how"}), G({"is", "are", "do", "does"})>>,
           <<G({"amenities", "facilities", "services"})>>,
           <<G({"check in", "check out"}), G({"time", "timing"})>> >>],
       [intent |-> "booking_modification", patterns |-> <<
           <<G({"change", "modify", "cancel", "update"}), Opt({"my"}),
             G({"booking", "reservation"})>>,
           <<G({"reschedule", "postpone"})>> >>],
       [intent |-> "complaint", patterns |-> <<
           <<G({"complaint", "problem", "issue", "not happy", "disappointed", "terrible", "bad"})>>,
           <<G({"%s%h%i%k%a%y%a%t", "%s%a%m%a%s%y%a"})>> >>],
       [intent |-> "farewell", patterns |-> <<
           <<G({"bye", "goodbye", "thanks", "thank you", "%d%h%a%n%y%a%v%a%d"})>> >>] >>

\* the strings a pattern matches, from its group i on
RECURSIVE Phrases(_, _)
Phrases(pattern, i) ==
    IF i > Len(pattern) THEN {""}
    ELSE LET rest == Phrases(pattern, i + 1)
             here == {IF r = "" THEN a ELSE a \o " " \o r : a \in pattern[i].alts, r \in rest}
         IN  IF pattern[i].optional THEN here \cup rest ELSE here

WordChars == "abcdefghijklmnopqrstuvwxyz0123456789_ABCDEFGHIJKLMNOPQRSTUVWXYZ"

\* \b holds between positions i and i + 1 of text
Boundary(text, i) ==
    LET before == i >= 1 /\ Contains(SubSeq(text, i, i), WordChars)
        after == i + 1 <= Len(text) /\ Contains(SubSeq(text, i + 1, i + 1), WordChars)
    IN  before # after

\* re.search(pattern, text, re.IGNORECASE) on a lower-cased text
Search(pattern, text) ==
    \E p \in Phrases(pattern, 1) :
        \E i \in 1..(Len(text) - Len(p) + 1) :
            /\ SubSeq(text, i, i + Len(p) - 1) = p
            /\ Boundary(text, i - 1)
            /\ Boundary(text, i + Len(p) - 1)

AnyPattern(patterns, text) ==
    \E k \in 1..Len(patterns) : Search(patterns[k], text)

-----------------------------------------------------------------------------
(* IntentClassifier.__init__, classify and _classify_with_ai *)

\* a provider named in the settings is taken as usable, with or without its key
use_ai_ignoring_keys(cfg) ==
    cfg.AI_PROVIDER \in {"openai", "anthropic"}

\* self.use_ai once __init__ has run
use_ai(cfg) ==
    /\ cfg.AI_PROVIDER \in {"openai", "anthropic"}
    /\ \/ cfg.AI_PROVIDER = "openai" /\ cfg.OPENAI_API_KEY
       \/ cfg.AI_PROVIDER = "anthropic" /\ cfg.ANTHROPIC_API_KEY

ErrorFallback == [intent |-> "information_request", confidence |-> 50, method |-> "error_fallback"]

Fallback == [intent |-> "information_request", confidence |-> 50, method |-> "fallback"]

\* what the call of the backend does: it raises, or it returns a content
\* that is None, is not JSON, is a JSON value other than an object, or is a
\* JSON object
BackendOutcomes ==
    {[kind |-> "raise", error |-> "APIConnectionError", object |-> <<>>],
     [kind |-> "raise", error |-> "APITimeoutError", object |-> <<>>],
     [kind |-> "none", error |-> "", object |-> <<>>],
     [kind |-> "text", error |-> "", object |-> <<>>],
     [kind |-> "array", error |-> "", object |-> <<>>],
     [kind |-> "number", error |-> "", object |-> <<>>],
     [kind |-> "object", error |-> "", object |-> [intent |-> "complaint", confidence |-> 90]],
     [kind |-> "object", error |-> "", object |-> [intent |-> "farewell", confidence |-> 60]],
     [kind |-> "object", error |-> "", object |-> [intent |-> "order_pizza", confidence |-> 90]],
     [kind |-> "object", error |-> "", object |-> [intent |-> "greeting"]],
     [kind |-> "object", error |-> "", object |-> [confidence |-> 90]],
     [kind |-> "object", error |-> "", object |-> [error |-> "rate limited"]]}

\* result["method"] = "ai-based" on a dict
WithMethod(d) ==
    [k \in DOMAIN d \cup {"method"} |-> IF k = "method" THEN "ai-based" ELSE d[k]]

\* the body of the try block ends by returning, or raises an Exception that
\* the except clause turns into the fallback
_classify_with_ai(text, language, cfg, outcome) ==
    IF cfg.AI_PROVIDER \notin {"openai", "anthropic"}
    THEN ErrorFallback                       \* content is unbound: UnboundLocalError
    ELSE IF outcome.kind = "raise"
    THEN ErrorFallback                       \* the client raises
    ELSE IF outcome.kind = "none"
    THEN ErrorFallback                       \* None.strip(): AttributeError
    ELSE IF outcome.kind = "text"
    THEN ErrorFallback                       \* json.loads: JSONDecodeError
    ELSE IF outcome.kind # "object"
    THEN ErrorFallback                       \* item assignment: TypeError
    ELSE WithMethod(outcome.object)

\* the rule loop of classify from table entry i on: the index of the first
\* intent one of whose patterns matches, 0 when there is none
RECURSIVE rule_loop(_, _)
rule_loop(i, text_lower) ==
    IF i > Len(INTENT_PATTERNS) THEN 0
    ELSE IF AnyPattern(INTENT_PATTERNS[i].patterns, text_lower) THEN i
    ELSE rule_loop(i + 1, text_lower)

\* the backend asked first whenever it is configured
classify_with_ai_first(hit, text, language, cfg, outcome) ==
    IF use_ai(cfg)
    THEN [invoked |-> TRUE, result |-> _classify_with_ai(text, language, cfg, outcome)]
    ELSE IF hit # 0
    THEN [invoked |-> FALSE,
          result |-> [intent |-> INTENT_PATTERNS[hit].intent, confidence |-> 95,
                      method |-> "rule-based"]]
    ELSE [invoked |-> FALSE, result |-> Fallback]

\* hit is rule_loop(1, text.lower()); invoked tells whether the backend was called
classify_with(hit, text, language, cfg, outcome) ==
    IF hit # 0
    THEN [invoked |-> FALSE,
          result |-> [intent |-> INTENT_PATTERNS[hit].intent, confidence |-> 95,
                      method |-> "rule-based"]]
    ELSE IF use_ai(cfg)
    THEN [invoked |-> TRUE, result |-> _classify_with_ai(text, language, cfg, outcome)]
    ELSE [invoked |-> FALSE, result |-> Fallback]

classify(text, language, cfg, outcome) ==
    classify_with(rule_loop(1, Lower(text)), text, language, cfg, outcome)

-----------------------------------------------------------------------------
(* Calls of IntentClassifier.classify, under every configuration *)

\* no rule matches "", "xyzzy" and "can i bring my pet"; "check in time
\* please" matches a pattern of room_booking and one of information_request,
\* "what is the price" one of room_inquiry and one of information_request,
\* "thanks, this is bad" one of complaint and one of farewell
ClassifyTexts ==
    {"", "xyzzy", "can i bring my pet", "Hello", "I want to book a room",
     "check in time please", "what is the price", "thanks, this is bad",
     "a table for dinner"}

LanguageArgs == {"en", "hi"}

SettingsSet ==
    [AI_PROVIDER : {"openai", "anthropic", "none"},
     OPENAI_API_KEY : BOOLEAN,
     ANTHROPIC_API_KEY : BOOLEAN]

\* the rule tier on each input text, computed once
rule_hits == [t \in ClassifyTexts |-> rule_loop(1, Lower(t))]

Classify(text, language, outcome) ==
    /\ classified.calls < MaxClassify
    /\ LET r == classify_with(rule_hits[text], text, language, settings, outcome)
       IN  /\ classified' = [calls |-> classified.calls + 1, text |-> text,
                             outcome |-> outcome, invoked |-> r.invoked,
                             result |-> r.result]
           /\ backend_calls' = backend_calls + (IF r.invoked THEN 1 ELSE 0)
    /\ UNCHANGED <<sessions, pending, arrived, log, now, state, settings, call, db>>

InitClassify ==
    /\ sessions = <<>>
    /\ pending = {}
    /\ arrived = 0
    /\ log = <<>>
    /\ now = 0
    /\ state = NewDialogueState
    /\ settings \in SettingsSet
    /\ classified = NoClassification
    /\ backend_calls = 0
    /\ call = NoCall
    /\ db = NoDb

NextClassify ==
    \E t \in ClassifyTexts, l \in LanguageArgs, o \in BackendOutcomes : Classify(t, l, o)

SpecClassify == InitClassify /\ [][NextClassify]_vars

-----------------------------------------------------------------------------
(* Properties of the classifier *)

\* the table entries one of whose patterns matches the text
matching ==
    [t \in ClassifyTexts |->
        {i \in 1..Len(INTENT_PATTERNS) : AnyPattern(INTENT_PATTERNS[i].patterns, Lower(t))}]

\* C9: when a pattern of some intent matches the text, classify does not
\* call the backend and returns the first intent in table order that has a
\* matching pattern, with confidence 0.95 and method "rule-based".
C9_RuleTierTakesPrecedence ==
    [][(/\ classified'.calls = classified.calls + 1
        /\ matching[classified'.text] # {})
       => /\ ~classified'.invoked
          /\ backend_calls' = backend_calls
          /\ classified'.result =
                [intent |-> INTENT_PATTERNS[
                                CHOOSE i \in matching[classified'.text] :
                                    \A k \in matching[classified'.text] : i <= k].intent,
                 confidence |-> 95,
                 method |-> "rule-based"]]_vars

\* a backend is configured and the text matches patterns of two intents; the
\* earlier one is returned and the backend has not been called
C9_Witness ==
    /\ classified.calls = 1
    /\ use_ai(settings)
    /\ Cardinality(matching[classified.text]) = 2
    /\ classified.result.intent = "room_booking"
    /\ classified.result.method = "rule-based"
    /\ backend_calls = 0

\* the call of the backend failed: it raised, or its content is not a JSON
\* object holding an intent and a confidence
Failed(outcome) ==
    \/ outcome.kind \in {"raise", "none", "text", "array", "number"}
    \/ /\ outcome.kind = "object"
       /\ ~({"intent", "confidence"} \subseteq DOMAIN outcome.object)

\* C10: when the backend is called and fails, classify returns the
\* information_request fallback with confidence 0.5 and method "error_fallback".
C10_FailureGivesErrorFallback ==
    (classified.invoked /\ Failed(classified.outcome))
        => classified.result = ErrorFallback

\* no provider is named in the settings, or the key of the named provider is
\* missing
NoBackendConfigured(cfg) ==
    \/ cfg.AI_PROVIDER \notin {"openai", "anthropic"}
    \/ cfg.AI_PROVIDER = "openai" /\ ~cfg.OPENAI_API_KEY
    \/ cfg.AI_PROVIDER = "anthropic" /\ ~cfg.ANTHROPIC_API_KEY

\* C11: when no statistical backend is configured (no provider, or a provider
\* whose API key is missing) and no rule pattern matches the text, classify
\* returns exactly the information_request fallback with confidence 0.5 and
\* method "fallback", and the backend is not called.
C11_FallbackWithoutBackend ==
    [][(/\ classified'.calls = classified.calls + 1
        /\ NoBackendConfigured(settings)
        /\ matching[classified'.text] = {})
       => /\ classified'.result =
                [intent |-> "information_request", confidence |-> 50,
                 method |-> "fallback"]
          /\ ~classified'.invoked
          /\ backend_calls' = backend_calls]_vars

\* the provider is named but its key is missing, the key of the other
\* provider is present, and no pattern matches the text
C11_Witness ==
    /\ classified.calls = 1
    /\ settings.AI_PROVIDER = "openai"
    /\ ~settings.OPENAI_API_KEY
    /\ settings.ANTHROPIC_API_KEY
    /\ classified.text = "can i bring my pet"
    /\ classified.result.method = "fallback"
    /\ backend_calls = 0

-----------------------------------------------------------------------------
(* Calls of DialogueManager.detect_intent on its own *)

\* no keyword at all ("", "xyzzy"); one keyword; a later intent with more
\* keywords than an earlier one ("I want to book a room", "cancel booking
\* refund"); an earlier intent with more than a later one ("rooms cost");
\* two intents with the same greatest count, 1 ("room price", "price room",
\* "book a room", the Hindi message) or 2 ("rooms price cost"); four
\* keywords of one intent ("what rooms types of rooms")
DetectIntentTexts ==
    {"", "xyzzy", "Hello", "I want to book a room", "cancel booking refund",
     "rooms cost", "room price", "price room", "book a room",
     "%k%a%m%a%r%a %k%i%m%a%t", "rooms price cost", "what rooms types of rooms"}

LanguageCodes == {"en", "lv", "ru", "hi", "si", "fr", "it", "de", "es"}

NewCall(fn, args) ==
    [fn |-> fn, args |-> args, done |-> FALSE, raised |-> "none", value |-> <<>>]

\* everything but the call is as after construction
InitCall ==
    /\ sessions = <<>>
    /\ pending = {}
    /\ arrived = 0
    /\ log = <<>>
    /\ now = 0
    /\ state = NewDialogueState
    /\ settings = NoSettings
    /\ classified = NoClassification
    /\ backend_calls = 0
    /\ db = NoDb

InitDetectIntent ==
    /\ InitCall
    /\ call \in {NewCall("detect_intent", <<t, l>>) : t \in DetectIntentTexts, l \in LanguageCodes}

DetectIntent ==
    /\ call.fn = "detect_intent"
    /\ ~call.done
    /\ call' = [call EXCEPT !.done = TRUE,
                            !.value = detect_intent(call.args[1], call.args[2])]
    /\ UNCHANGED <<sessions, pending, arrived, log, now, state, settings, classified,
                   backend_calls, db>>

SpecDetectIntent == InitDetectIntent /\ [][DetectIntent]_vars

\* for each text, the number of keywords of each table entry that occur in it
keyword_counts ==
    [t \in DetectIntentTexts |->
        [i \in 1..Len(intents) |-> matches(intents[i].keywords, Lower(t))]]

\* the first table entry whose count is the greatest of all
FirstGreatest(counts) ==
    CHOOSE i \in DOMAIN counts :
        /\ \A k \in DOMAIN counts : counts[k] <= counts[i]
        /\ \A k \in DOMAIN counts : counts[k] = counts[i] => i <= k

-----------------------------------------------------------------------------
(* LanguageDetector: models/language_detector.py *)

SUPPORTED_LANGUAGES == <<"en", "hi", "ta", "te", "kn">>

LANGUAGE_INDICATORS ==
    << [lang |-> "hi", indicators |-> <<"%n%a%m%a%s%t%e", "%d%h%a%n%y%a%v%a%d", "%k%a%m%a%r%a", "%b%u%k%i%n%g", "%m%u%j%h%e", "%k%y%a", "%h%a%i">>],
       [lang |-> "ta", indicators |-> <<"$v$a$n$a$k$k$a$m", "$n$a$n$r$i", "$a$r$a$i", "$p$a$t$i$v$u", "$e$n$n$a", "$e$p$p$a$t$i">>],
       [lang |-> "te", indicators |-> <<"=n=a=m=a=s=k=a=r=a=m", "=d=h=a=n=y=a=v=a=d=a=l=u", "=g=a=d=i", "=b=u=k=i=n=g", "=e=m=i=t=i">>],
       [lang |-> "kn", indicators |-> <<"~n~a~m~a~s~k~a~r~a", "~d~h~a~n~y~a~v~a~d~a", "~k~o~n~e", "~b~u~k~i~n~g">>] >>

\* the characters that mark the script of the letter that follows them
Markers == {"#", "%", "&", "$", "=", "~", "^"}

\* len(text): a marker and its letter are one character
CharLen(text) ==
    Cardinality({i \in 1..Len(text) : SubSeq(text, i, i) \notin Markers})

\* text.strip()
RECURSIVE Strip(_)
Strip(text) ==
    IF Len(text) = 0 THEN text
    ELSE IF SubSeq(text, 1, 1) = " " THEN Strip(SubSeq(text, 2, Len(text)))
    ELSE IF SubSeq(text, Len(text), Len(text)) = " " THEN Strip(SubSeq(text, 1, Len(text) - 1))
    ELSE text

\* any(lo <= char <= hi for char in text), for the block of one script
ContainsScript(marker, text) ==
    \E i \in 1..Len(text) : SubSeq(text, i, i) = marker

_contains_devanagari(text) == ContainsScript("%", text)

_contains_tamil(text) == ContainsScript("$", text)

_contains_telugu(text) == ContainsScript("=", text)

_contains_kannada(text) == ContainsScript("~", text)

\* "" stands for None
_detect_by_patterns(text) ==
    LET hits == {i \in 1..Len(LANGUAGE_INDICATORS) :
                    AnyKeyword(LANGUAGE_INDICATORS[i].indicators, text)}
    IN  IF hits # {}
        THEN LANGUAGE_INDICATORS[CHOOSE i \in hits : \A j \in hits : i <= j].lang
        ELSE IF _contains_devanagari(text) THEN "hi"
        ELSE IF _contains_tamil(text) THEN "ta"
        ELSE IF _contains_telugu(text) THEN "te"
        ELSE IF _contains_kannada(text) THEN "kn"
        ELSE ""

InSeq(x, seq) == \E i \in 1..Len(seq) : seq[i] = x

\* what langdetect.detect does on a text: it returns a language code, of the
\* supported set or not, or raises LangDetectException
LangdetectOutcomes ==
    {[kind |-> "return", code |-> c] :
        c \in {"en", "hi", "ta", "te", "kn", "ml", "mr", "fr", "de", "zh-cn"}}
    \cup {[kind |-> "raise", code |-> "LangDetectException"]}

\* the library's code returned as it is
detect_unmapped(text, outcome) ==
    IF Len(text) = 0 \/ CharLen(Strip(text)) < 2
    THEN [raised |-> "none", value |-> "en"]
    ELSE LET detected_lang == _detect_by_patterns(text)
         IN  IF detected_lang # ""
             THEN [raised |-> "none", value |-> detected_lang]
             ELSE IF outcome.kind = "raise"
             THEN [raised |-> "none", value |-> "en"]
             ELSE [raised |-> "none", value |-> outcome.code]

\* LanguageDetector.detect; outcome is what langdetect.detect does if called
detect(text, outcome) ==
    IF Len(text) = 0 \/ CharLen(Strip(text)) < 2
    THEN [raised |-> "none", value |-> "en"]
    ELSE LET detected_lang == _detect_by_patterns(text)
         IN  IF detected_lang # ""
             THEN [raised |-> "none", value |-> detected_lang]
             ELSE IF outcome.kind = "raise"
             THEN [raised |-> "none", value |-> "en"]      \* except LangDetectException
             ELSE IF InSeq(outcome.code, SUPPORTED_LANGUAGES)
             THEN [raised |-> "none", value |-> outcome.code]
             ELSE [raised |-> "none", value |-> "en"]

\* empty, blank, one character (Latin, Devanagari), two characters, an
\* indicator of each language, letters of each script without an indicator,
\* a Tamil indicator after a Devanagari letter, and texts left to langdetect
DetectTexts ==
    {"", " ", "  ", "a", " a ", "%k", "ok", "12345",
     "%n%a%m%a%s%t%e", "$n$a$n$r$i", "=g=a=d=i hello", "~k~o~n~e",
     "%s%u%b%h", "$t$a$m$i$l", "=t=e=l=u", "~k~a~n",
     "%s%u%b%h $n$a$n$r$i", "Hello, I need a room", "bonjour", "&h&o&t&a&l&a&y&a"}

InitDetect ==
    /\ InitCall
    /\ call \in {NewCall("detect", <<t, o>>) : t \in DetectTexts, o \in LangdetectOutcomes}

Detect ==
    /\ call.fn = "detect"
    /\ ~call.done
    /\ LET r == detect(call.args[1], call.args[2])
       IN  call' = [call EXCEPT !.done = TRUE, !.raised = r.raised, !.value = r.value]
    /\ UNCHANGED <<sessions, pending, arrived, log, now, state, settings, classified,
                   backend_calls, db>>

SpecDetect == InitDetect /\ [][Detect]_vars

\* no marker word and no letter of the four scripts in the text
NoPattern(text) ==
    /\ \A i \in 1..Len(LANGUAGE_INDICATORS) :
           ~AnyKeyword(LANGUAGE_INDICATORS[i].indicators, text)
    /\ \A m \in {"%", "$", "=", "~"} : ~ContainsScript(m, text)

\* C13: LanguageDetector.detect never raises and always returns a code of the
\* supported set {en, hi, ta, te, kn}, for every text (empty, shorter than 2
\* characters, holding a marker word, holding letters of a script, or left to
\* the statistical routine, also when that routine returns a code outside the
\* set or fails); a text that is empty or too short, or without pattern and
\* with an unsupported or failed statistical result, gives the default "en".
C13_DetectAlwaysSupported ==
    (call.fn = "detect" /\ call.done)
        => /\ call.raised = "none"
           /\ call.value \in {"en", "hi", "ta", "te", "kn"}
           /\ (\/ call.args[1] = ""
               \/ CharLen(Strip(call.args[1])) < 2
               \/ /\ NoPattern(call.args[1])
                  /\ \/ call.args[2].kind = "raise"
                     \/ call.args[2].code \notin {"en", "hi", "ta", "te", "kn"})
              => call.value = "en"

\* a text without pattern on which the statistical routine answers "fr"
C13_Witness ==
    /\ call.fn = "detect"
    /\ call.done
    /\ call.args[1] = "bonjour"
    /\ call.args[2] = [kind |-> "return", code |-> "fr"]
    /\ call.value = "en"

-----------------------------------------------------------------------------
(* Properties of the responses and of the stored sessions *)

\* C14: the language field of every process_message response is one of the
\* supported language codes en, hi, ta, te, kn, for every input message.
C14_ResponseLanguageSupported ==
    \A i \in 1..Len(log) :
        (IsProcess(log[i]) /\ log[i].raised = "none")
            => log[i].response.language \in {"en", "hi", "ta", "te", "kn"}

\* positions of the completed process_message calls of session sid
TurnsOf(l, sid) ==
    {i \in EventsOf(l, sid) : IsProcess(l[i]) /\ l[i].raised = "none"}

\* C16: the stored language of a session is not sticky: after every
\* process_message, the language recorded in the session's state is the
\* language detected for the latest message of the session, the one returned
\* in that call's response, also when it differs from the language of the
\* session's first message.
C16_StoredLanguageIsLatest ==
    \A sid \in DOMAIN sessions :
        TurnsOf(log, sid) # {}
            => sessions[sid].language = log[Latest(TurnsOf(log, sid))].response.language

\* the elements of a sequence
Range(seq) == {seq[i] : i \in 1..Len(seq)}

\* C17: for a message classified as a booking request in a session that has
\* collected no entities, missing_slots of the response is not empty and
\* lists at least the check-in date, the check-out date, the room type and
\* the guest count.
C17_BookingListsMissingSlots ==
    \A i \in 1..Len(log) :
        (/\ IsProcess(log[i])
         /\ log[i].raised = "none"
         /\ log[i].response.intent \in {"booking", "room_booking"})
            => /\ log[i].response.missing_slots # <<>>
               /\ {"check_in_date", "check_out_date", "room_type", "guest_count"}
                      \subseteq Range(log[i].response.missing_slots)

\* C18: the entities extracted on each turn are exposed in the response and
\* merged into collected_entities of the session, which accumulate: a slot
\* value collected on an earlier turn of the session is still there after any
\* later turn of the session that does not mention the slot.
C18_EntitiesExposedAndAccumulated ==
    \A i \in 1..Len(log) :
        (IsProcess(log[i]) /\ log[i].raised = "none")
            => /\ "entities" \in DOMAIN log[i].response
               /\ LET sid == log[i].session_id
                      later == {j \in TurnsOf(log, sid) : j > i}
                  IN  (sid \in DOMAIN sessions /\ ~\E j \in EventsOf(log, sid) : j > i /\ IsClear(log[j]))
                          => /\ "collected_entities" \in DOMAIN sessions[sid]
                             /\ \A k \in DOMAIN log[i].response.entities :
                                    /\ k \in DOMAIN sessions[sid].collected_entities
                                    /\ (\A j \in later : k \notin DOMAIN log[j].response.entities)
                                           => sessions[sid].collected_entities[k]
                                                  = log[i].response.entities[k]

-----------------------------------------------------------------------------
(* Calls of DialogueManager.generate_response on its own *)

\* the intents of the response map, an intent of the rule classifier that
\* the map does not know, and a name that is no intent at all
IntentArgs ==
    {intents[i].intent : i \in 1..Len(intents)}
    \cup {"general_inquiry", "room_booking", "order_pizza"}

\* the languages that have a phrase table, a supported language that has
\* none, and a code that is no language
ResponseLanguageArgs == LanguageCodes \cup {"ta", "xx"}

InitGenerateResponse ==
    /\ InitCall
    /\ call \in {NewCall("generate_response", <<i, l>>) :
                    i \in IntentArgs, l \in ResponseLanguageArgs}

GenerateResponse ==
    /\ call.fn = "generate_response"
    /\ ~call.done
    /\ LET r == generate_response(call.args[1], call.args[2])
       IN  call' = [call EXCEPT !.done = TRUE, !.raised = r.raised, !.value = r.message]
    /\ UNCHANGED <<sessions, pending, arrived, log, now, state, settings, classified,
                   backend_calls, db>>

SpecGenerateResponse == InitGenerateResponse /\ [][GenerateResponse]_vars

\* for each intent of the response map but price_inquiry, the key of its own
\* phrase and the key it falls back to ("" where the map names none)
phrase_keys ==
    [greeting          |-> [key |-> "greeting", fallback |-> ""],
     room_inquiry      |-> [key |-> "room_types", fallback |-> ""],
     room_availability |-> [key |-> "room_availability", fallback |-> "booking_help"],
     amenities         |-> [key |-> "amenities", fallback |-> ""],
     check_in_out      |-> [key |-> "check_in", fallback |-> ""],
     booking           |-> [key |-> "booking_help", fallback |-> ""],
     cancellation      |-> [key |-> "cancellation", fallback |-> ""],
     modify_booking    |-> [key |-> "modify_booking", fallback |-> "booking_help"],
     breakfast         |-> [key |-> "breakfast", fallback |-> "amenities"],
     pets              |-> [key |-> "pets", fallback |-> "amenities"],
     parking           |-> [key |-> "parking", fallback |-> "amenities"],
     wifi              |-> [key |-> "wifi", fallback |-> "amenities"],
     payment           |-> [key |-> "payment_options", fallback |-> "booking_help"],
     extra_bed         |-> [key |-> "extra_bed", fallback |-> "booking_help"],
     child_policy      |-> [key |-> "child_policy", fallback |-> "booking_help"],
     early_checkin     |-> [key |-> "early_checkin", fallback |-> "check_in"],
     late_checkout     |-> [key |-> "late_checkout", fallback |-> "check_in"],
     group_booking     |-> [key |-> "group_booking", fallback |-> "booking_help"],
     long_stay         |-> [key |-> "long_stay", fallback |-> "booking_help"],
     room_features     |-> [key |-> "room_features", fallback |-> "room_types"],
     location          |-> [key |-> "nearest_attractions", fallback |-> "greeting"],
     airport_transfer  |-> [key |-> "airport_transfer", fallback |-> "amenities"],
     special_occasion  |-> [key |-> "special_occasion", fallback |-> "booking_help"],
     complaint         |-> [key |-> "complaint", fallback |-> ""],
     discount          |-> [key |-> "loyalty_program", fallback |-> "booking_help"],
     general_inquiry   |-> [key |-> "greeting", fallback |-> ""]]

\* the table a language selects
SelectedTable(language) ==
    IF language \in DOMAIN language_responses THEN language ELSE "en"

\* the three price phrases joined by line ends; a missing first one is
\* replaced by the room types phrase, a missing other one by nothing
PriceReply(t) ==
    (IF "price_standard" \in language_responses[t]
     THEN Phrase(t, "price_standard") ELSE Phrase(t, "room_types"))
    \o Literal("\n")
    \o (IF "price_deluxe" \in language_responses[t]
        THEN Phrase(t, "price_deluxe") ELSE Literal(""))
    \o Literal("\n")
    \o (IF "price_suite" \in language_responses[t]
        THEN Phrase(t, "price_suite") ELSE Literal(""))

\* the reply to every intent but complaint whose own phrase is missing
ReplyOf(intent, t) ==
    IF intent = "price_inquiry" THEN PriceReply(t)
    ELSE IF intent \notin DOMAIN phrase_keys THEN Phrase(t, "greeting")
    ELSE IF phrase_keys[intent].key \in language_responses[t]
    THEN Phrase(t, phrase_keys[intent].key)
    ELSE Phrase(t, phrase_keys[intent].fallback)

ComplaintMissing(intent, t) ==
    intent = "complaint" /\ "complaint" \notin language_responses[t]

-----------------------------------------------------------------------------
(* EntityExtractor.validate_entity: models/entity_extractor.py.  A value is *)
(* an int (n), a float (n in tenths), a str (s) or None.                    *)

IntValue(n) == [kind |-> "int", n |-> n, s |-> ""]

FloatValue(tenths) == [kind |-> "float", n |-> tenths, s |-> ""]

StrValue(s) == [kind |-> "str", n |-> 0, s |-> s]

NoneValue == [kind |-> "none", n |-> 0, s |-> ""]

Digits == "0123456789"

IsDigit(c) == \E i \in 1..10 : SubSeq(Digits, i, i) = c

DigitVal(c) == (CHOOSE i \in 1..10 : SubSeq(Digits, i, i) = c) - 1

AllDigits(s) == Len(s) > 0 /\ \A i \in 1..Len(s) : IsDigit(SubSeq(s, i, i))

\* the number a string of digits writes
RECURSIVE ToInt(_)
ToInt(s) ==
    IF Len(s) = 0 THEN 0
    ELSE 10 * ToInt(SubSeq(s, 1, Len(s) - 1)) + DigitVal(SubSeq(s, Len(s), Len(s)))

\* str(n) of a natural number
RECURSIVE NatToStr(_)
NatToStr(n) ==
    IF n < 10 THEN SubSeq(Digits, n + 1, n + 1)
    ELSE NatToStr(n \div 10) \o SubSeq(Digits, (n % 10) + 1, (n % 10) + 1)

IntToStr(n) == IF n < 0 THEN "-" \o NatToStr(-n) ELSE NatToStr(n)

\* str(value)
StrOf(v) ==
    IF v.kind = "str" THEN v.s
    ELSE IF v.kind = "int" THEN IntToStr(v.n)
    ELSE IF v.kind = "float"
    THEN (IF v.n < 0 THEN "-" ELSE "")
         \o NatToStr((IF v.n < 0 THEN -v.n ELSE v.n) \div 10) \o "."
         \o NatToStr((IF v.n < 0 THEN -v.n ELSE v.n) % 10)
    ELSE "None"

\* int(value): ok tells whether it returns, error names what it raises
IntOf(v) ==
    IF v.kind = "int" THEN [ok |-> TRUE, n |-> v.n, error |-> "none"]
    ELSE IF v.kind = "float"
    THEN [ok |-> TRUE,
          n |-> IF v.n < 0 THEN -((-v.n) \div 10) ELSE v.n \div 10,
          error |-> "none"]
    ELSE IF v.kind = "none" THEN [ok |-> FALSE, n |-> 0, error |-> "TypeError"]
    ELSE LET t == Strip(v.s)
             signed == Len(t) > 0 /\ SubSeq(t, 1, 1) \in {"-", "+"}
             body == IF signed THEN SubSeq(t, 2, Len(t)) ELSE t
         IN  IF AllDigits(body)
             THEN [ok |-> TRUE,
                   n |-> IF signed /\ SubSeq(t, 1, 1) = "-" THEN -ToInt(body) ELSE ToInt(body),
                   error |-> "none"]
             ELSE [ok |-> FALSE, n |-> 0, error |-> "ValueError"]

\* the positions of "-" in a string
Dashes(s) == {i \in 1..Len(s) : SubSeq(s, i, i) = "-"}

IsLeap(y) == (y % 4 = 0 /\ y % 100 # 0) \/ y % 400 = 0

DaysIn(y, m) ==
    IF m = 2 THEN (IF IsLeap(y) THEN 29 ELSE 28)
    ELSE IF m \in {4, 6, 9, 11} THEN 30 ELSE 31

\* datetime.strptime(value, "%Y-%m-%d"): ok is FALSE when it raises
Strptime(v) ==
    LET bad == [ok |-> FALSE, year |-> 0, month |-> 0, day |-> 0]
    IN  IF v.kind # "str" \/ Cardinality(Dashes(v.s)) # 2 THEN bad
        ELSE LET a == CHOOSE i \in Dashes(v.s) : \A j \in Dashes(v.s) : i <= j
                 b == CHOOSE i \in Dashes(v.s) : \A j \in Dashes(v.s) : j <= i
                 ys == SubSeq(v.s, 1, a - 1)
                 ms == SubSeq(v.s, a + 1, b - 1)
                 ds == SubSeq(v.s, b + 1, Len(v.s))
             IN  IF /\ AllDigits(ys) /\ Len(ys) = 4
                    /\ AllDigits(ms) /\ Len(ms) \in {1, 2}
                    /\ AllDigits(ds) /\ Len(ds) \in {1, 2}
                    /\ ToInt(ys) >= 1
                    /\ ToInt(ms) \in 1..12
                    /\ ToInt(ds) >= 1
                    /\ ToInt(ds) <= DaysIn(ToInt(ys), ToInt(ms))
                 THEN [ok |-> TRUE, year |-> ToInt(ys), month |-> ToInt(ms), day |-> ToInt(ds)]
                 ELSE bad

\* a >= b for two datetimes; second is the second of the day
DatetimeGE(a, b) ==
    \/ a.year > b.year
    \/ a.year = b.year /\ a.month > b.month
    \/ a.year = b.year /\ a.month = b.month /\ a.day > b.day
    \/ a.year = b.year /\ a.month = b.month /\ a.day = b.day /\ a.second >= b.second

\* re.match(r"[^@]+@[^@]+\.[^@]+", value) is not None
EmailMatch(s) ==
    \E i \in 2..Len(s) :
        /\ SubSeq(s, i, i) = "@"
        /\ \A k \in 1..(i - 1) : SubSeq(s, k, k) # "@"
        /\ \E j \in (i + 2)..(Len(s) - 1) :
               /\ SubSeq(s, j, j) = "."
               /\ \A k \in (i + 1)..(j - 1) : SubSeq(s, k, k) # "@"
               /\ SubSeq(s, j + 1, j + 1) # "@"

date_slots == {"check_in_date", "check_out_date", "reservation_date", "event_date"}

\* current is datetime.now(); raised is "none" when the call returns
validate_entity(entity_type, value, current) ==
    IF entity_type = "phone_number"
    THEN LET text == StrOf(value)
         IN  [raised |-> "none",
              value |-> Cardinality({i \in 1..Len(text) : IsDigit(SubSeq(text, i, i))}) >= 10]
    ELSE IF entity_type = "email"
    THEN IF value.kind # "str"
         THEN [raised |-> "TypeError", value |-> FALSE]
         ELSE [raised |-> "none", value |-> EmailMatch(value.s)]
    ELSE IF entity_type \in date_slots
    THEN LET d == Strptime(value)
         IN  IF ~d.ok
             THEN [raised |-> "none", value |-> FALSE]          \* except: return False
             ELSE [raised |-> "none",
                   value |-> DatetimeGE([year |-> d.year, month |-> d.month,
                                         day |-> d.day, second |-> 0], current)]
    ELSE IF entity_type \in {"guest_count", "duration"}
    THEN LET n == IntOf(value)
         IN  IF ~n.ok
             THEN [raised |-> n.error, value |-> FALSE]
             ELSE [raised |-> "none",
                   value |-> 1 <= n.n /\ n.n <= (IF entity_type = "guest_count" THEN 100 ELSE 24)]
    ELSE [raised |-> "none", value |-> TRUE]

-----------------------------------------------------------------------------
(* Calls of EntityExtractor.validate_entity on its own *)

EntityTypes ==
    date_slots \cup {"guest_count", "duration", "phone_number", "email", "room_type"}

\* numbers around the two ranges, numbers written as text, text that is no
\* number, dates around the current one (2026-11-02), dates that do not
\* exist or are written in another format, a phone number, an address, None
Values ==
    {IntValue(n) : n \in {-3, 0, 1, 2, 24, 25, 100, 101}}
    \cup {FloatValue(t) : t \in {5, 25, 1009}}
    \cup {StrValue(t) : t \in {"", "abc", "two", "5", " 7 ", "0", "100", "101", "2.5", "-3",
                               "2026-11-02", "2026-11-2", "2026-11-01", "2026-11-03",
                               "2025-12-31", "2027-01-01", "2026-02-29", "2028-02-29",
                               "2026-13-01", "02/11/2026", "2026-11-02 10:00", "tomorrow",
                               "98765 43210", "a@b.c", "a@b"}}
    \cup {NoneValue}

\* the current time: the start, the middle and the last second of 2026-11-02
CurrentTimes ==
    {[year |-> 2026, month |-> 11, day |-> 2, second |-> sec] : sec \in {0, 43200, 86399}}

InitValidateEntity ==
    /\ InitCall
    /\ call \in {NewCall("validate_entity", <<e, v, c>>) :
                    e \in EntityTypes, v \in Values, c \in CurrentTimes}

ValidateEntity ==
    /\ call.fn = "validate_entity"
    /\ ~call.done
    /\ LET r == validate_entity(call.args[1], call.args[2], call.args[3])
       IN  call' = [call EXCEPT !.done = TRUE, !.raised = r.raised, !.value = r.value]
    /\ UNCHANGED <<sessions, pending, arrived, log, now, state, settings, classified,
                   backend_calls, db>>

SpecValidateEntity == InitValidateEntity /\ [][ValidateEntity]_vars

\* the value is a number, or text that writes a whole number; tenths is ten
\* times that number
IsNumeric(v) == v.kind \in {"int", "float"} \/ (v.kind = "str" /\ IntOf(v).ok)

Tenths(v) == IF v.kind = "float" THEN v.n ELSE 10 * IntOf(v).n

\* C19: validate_entity("guest_count", n) returns true if and only if
\* 1 <= n <= 100; it returns false, and does not raise, for 0, for 101 and
\* for an input that is not a number.
C19_GuestCountInRange ==
    (call.fn = "validate_entity" /\ call.done /\ call.args[1] = "guest_count")
        => /\ call.raised = "none"
           /\ call.value = (/\ IsNumeric(call.args[2])
                            /\ 10 <= Tenths(call.args[2])
                            /\ Tenths(call.args[2]) <= 1000)

\* C20: for each date slot, validate_entity returns true if and only if the
\* value parses as a date and is not strictly before the current date; the
\* current date itself is valid at any time of the day, and a value that
\* does not parse gives false.
C20_DateNotBeforeToday ==
    (call.fn = "validate_entity" /\ call.done /\ call.args[1] \in date_slots)
        => /\ call.raised = "none"
           /\ LET d == Strptime(call.args[2])
                  today == call.args[3]
              IN  call.value =
                      (/\ d.ok
                       /\ \/ d.year > today.year
                          \/ d.year = today.year /\ d.month > today.month
                          \/ d.year = today.year /\ d.month = today.month
                                /\ d.day >= today.day)

-----------------------------------------------------------------------------
(* Regular expressions as EntityExtractor uses them: re.search on a        *)
(* pattern that is a sequence of items.  A position is the index of the    *)
(* next character to read; the ends of a match are listed in the order in  *)
(* which the backtracking matcher tries them (greedy first).               *)

CharsOf(s) == {SubSeq(s, i, i) : i \in 1..Len(s)}

DigitChars == CharsOf(Digits)

UpperChars == CharsOf(UpperAZ)

LowerChars == CharsOf(LowerAZ)

\* \s
SpaceChars == {" ", "\t", "\n"}

\* no upper limit on a repetition
Many == 99

\* [set]{min,max}
Cls(set, min, max) ==
    [kind |-> "cls", set |-> set, min |-> min, max |-> max, alts |-> <<>>, items |-> <<>>]

\* (a|b|...) of literal texts, tried in this order
Lit(alts) ==
    [kind |-> "lit", set |-> {}, min |-> 1, max |-> 1, alts |-> alts, items |-> <<>>]

\* \b
WordB == [kind |-> "b", set |-> {}, min |-> 0, max |-> 0, alts |-> <<>>, items |-> <<>>]

\* (?:items)*
Star(items) ==
    [kind |-> "star", set |-> {}, min |-> 0, max |-> Many, alts |-> <<>>, items |-> items]

RECURSIVE Flatten(_)
Flatten(ss) == IF ss = <<>> THEN <<>> ELSE Head(ss) \o Flatten(Tail(ss))

\* how many characters of the set follow position pos, at most max
RECURSIVE RunLen(_, _, _, _)
RunLen(set, text, pos, max) ==
    IF max = 0 \/ pos > Len(text) THEN 0
    ELSE IF SubSeq(text, pos, pos) \notin set THEN 0
    ELSE 1 + RunLen(set, text, pos + 1, max - 1)

ClsEnds(item, text, pos) ==
    LET r == RunLen(item.set, text, pos, item.max)
    IN  IF r < item.min THEN <<>>
        ELSE [j \in 1..(r - item.min + 1) |-> pos + r - (j - 1)]

StartsWith(text, pos, word) ==
    /\ pos + Len(word) - 1 <= Len(text)
    /\ SubSeq(text, pos, pos + Len(word) - 1) = word

LitEnds(item, text, pos) ==
    Flatten([j \in 1..Len(item.alts) |->
                IF StartsWith(text, pos, item.alts[j])
                THEN <<pos + Len(item.alts[j])>> ELSE <<>>])

RECURSIVE AllEnds(_, _, _, _)
RECURSIVE ItemEnds(_, _, _)
RECURSIVE StarEnds(_, _, _)

\* the ends of the matches of items[k..] that start at pos
AllEnds(items, k, text, pos) ==
    IF k > Len(items) THEN <<pos>>
    ELSE LET c == ItemEnds(items[k], text, pos)
         IN  Flatten([j \in 1..Len(c) |-> AllEnds(items, k + 1, text, c[j])])

ItemEnds(item, text, pos) ==
    IF item.kind = "cls" THEN ClsEnds(item, text, pos)
    ELSE IF item.kind = "lit" THEN LitEnds(item, text, pos)
    ELSE IF item.kind = "b" THEN (IF Boundary(text, pos - 1) THEN <<pos>> ELSE <<>>)
    ELSE StarEnds(item.items, text, pos)

StarEnds(items, text, pos) ==
    LET once == SelectSeq(AllEnds(items, 1, text, pos), LAMBDA e : e > pos)
    IN  Flatten([j \in 1..Len(once) |-> StarEnds(items, text, once[j])]) \o <<pos>>

\* the matches of pre(grp)post that start at position i, in the matcher's
\* order: g1 and g2 delimit group 1, end is the end of the match
MatchesAt(pre, grp, post, text, i) ==
    LET e1s == AllEnds(pre, 1, text, i)
    IN  Flatten([a \in 1..Len(e1s) |->
            LET e2s == AllEnds(grp, 1, text, e1s[a])
            IN  Flatten([b \in 1..Len(e2s) |->
                    LET e3s == AllEnds(post, 1, text, e2s[b])
                    IN  IF e3s = <<>> THEN <<>>
                        ELSE <<[found |-> TRUE, start |-> i, g1 |-> e1s[a],
                                g2 |-> e2s[b], end |-> Head(e3s)]>>])])

NoMatch == [found |-> FALSE, start |-> 0, g1 |-> 0, g2 |-> 0, end |-> 0]

\* re.search(pattern, text) for the pattern pre(grp)post
ReSearch(pre, grp, post, text) ==
    LET starts == {i \in 1..(Len(text) + 1) : MatchesAt(pre, grp, post, text, i) # <<>>}
    IN  IF starts = {} THEN NoMatch
        ELSE Head(MatchesAt(pre, grp, post, text,
                            CHOOSE i \in starts : \A j \in starts : i <= j))

\* match.group(0) and match.group(1)
Group0(m, text) == SubSeq(text, m.start, m.end - 1)

Group1(m, text) == SubSeq(text, m.g1, m.g2 - 1)

-----------------------------------------------------------------------------
(* Dates: datetime arithmetic, strptime and strftime *)

NextDay(d) ==
    IF d.day < DaysIn(d.year, d.month) THEN [d EXCEPT !.day = @ + 1]
    ELSE IF d.month < 12 THEN [d EXCEPT !.month = @ + 1, !.day = 1]
    ELSE [d EXCEPT !.year = @ + 1, !.month = 1, !.day = 1]

PrevDay(d) ==
    IF d.day > 1 THEN [d EXCEPT !.day = @ - 1]
    ELSE IF d.month > 1 THEN [d EXCEPT !.month = @ - 1, !.day = DaysIn(d.year, d.month - 1)]
    ELSE [d EXCEPT !.year = @ - 1, !.month = 12, !.day = 31]

\* d + timedelta(days=n)
RECURSIVE AddDays(_, _)
AddDays(d, n) ==
    IF n = 0 THEN d
    ELSE IF n > 0 THEN AddDays(NextDay(d), n - 1)
    ELSE AddDays(PrevDay(d), n + 1)

RECURSIVE DaysBeforeMonth(_, _)
DaysBeforeMonth(y, m) == IF m = 1 THEN 0 ELSE DaysBeforeMonth(y, m - 1) + DaysIn(y, m - 1)

\* date.toordinal()
Ordinal(d) ==
    365 * (d.year - 1) + ((d.year - 1) \div 4) - ((d.year - 1) \div 100)
        + ((d.year - 1) \div 400) + DaysBeforeMonth(d.year, d.month) + d.day

\* date.weekday(): Monday is 0, Sunday is 6
Weekday(d) == (Ordinal(d) + 6) % 7

Pad2(n) == IF n < 10 THEN "0" \o NatToStr(n) ELSE NatToStr(n)

Pad4(n) ==
    IF n < 10 THEN "000" \o NatToStr(n)
    ELSE IF n < 100 THEN "00" \o NatToStr(n)
    ELSE IF n < 1000 THEN "0" \o NatToStr(n)
    ELSE NatToStr(n)

\* d.strftime("%Y-%m-%d")
Strftime(d) == Pad4(d.year) \o "-" \o Pad2(d.month) \o "-" \o Pad2(d.day)

SepPositions(s, sep) == {i \in 1..Len(s) : SubSeq(s, i, i) = sep}

\* datetime.strptime(s, fmt) for a format of three fields joined by sep;
\* order tells which field is which: "dmy", "ymd" or "mdy"
StrptimeFmt(s, sep, order) ==
    LET bad == [ok |-> FALSE, year |-> 0, month |-> 0, day |-> 0]
        seps == SepPositions(s, sep)
    IN  IF Cardinality(seps) # 2 THEN bad
        ELSE LET a == CHOOSE i \in seps : \A j \in seps : i <= j
                 b == CHOOSE i \in seps : \A j \in seps : j <= i
                 f1 == SubSeq(s, 1, a - 1)
                 f2 == SubSeq(s, a + 1, b - 1)
                 f3 == SubSeq(s, b + 1, Len(s))
                 ys == IF order = "ymd" THEN f1 ELSE f3
                 ms == IF order = "dmy" THEN f2 ELSE IF order = "ymd" THEN f2 ELSE f1
                 ds == IF order = "dmy" THEN f1 ELSE IF order = "ymd" THEN f3 ELSE f2
             IN  IF /\ AllDigits(ys) /\ Len(ys) = 4
                    /\ AllDigits(ms) /\ Len(ms) \in {1, 2}
                    /\ AllDigits(ds) /\ Len(ds) \in {1, 2}
                    /\ ToInt(ys) >= 1
                    /\ ToInt(ms) \in 1..12
                    /\ ToInt(ds) >= 1
                    /\ ToInt(ds) <= DaysIn(ToInt(ys), ToInt(ms))
                 THEN [ok |-> TRUE, year |-> ToInt(ys), month |-> ToInt(ms), day |-> ToInt(ds)]
                 ELSE bad

-----------------------------------------------------------------------------
(* EntityExtractor: the tables and the extractors of one slot each *)

\* the offset in days of each expression, in the order of the dict;
\* "this weekend" is 5 - weekday of the current day
TEMPORAL_EXPRESSIONS ==
    << [expression |-> "today", days |-> 0, weekend |-> FALSE],
       [expression |-> "tomorrow", days |-> 1, weekend |-> FALSE],
       [expression |-> "day after tomorrow", days |-> 2, weekend |-> FALSE],
       [expression |-> "next week", days |-> 7, weekend |-> FALSE],
       [expression |-> "next month", days |-> 30, weekend |-> FALSE],
       [expression |-> "this weekend", days |-> 0, weekend |-> TRUE] >>

DateSeps == {"-", "/"}

\* PATTERNS["date_patterns"]
date_patterns ==
    << <<WordB, Cls(DigitChars, 1, 2), Cls(DateSeps, 1, 1), Cls(DigitChars, 1, 2),
         Cls(DateSeps, 1, 1), Cls(DigitChars, 2, 4), WordB>>,
       <<WordB, Cls(DigitChars, 4, 4), Cls(DateSeps, 1, 1), Cls(DigitChars, 1, 2),
         Cls(DateSeps, 1, 1), Cls(DigitChars, 1, 2), WordB>> >>

\* the formats tried on a matched date, in this order
date_formats ==
    << [sep |-> "/", order |-> "dmy"], [sep |-> "-", order |-> "dmy"],
       [sep |-> "-", order |-> "ymd"], [sep |-> "/", order |-> "mdy"] >>

\* the first format that parses date_str, 0 when none does
FirstFormat(date_str) ==
    LET ok == {f \in 1..Len(date_formats) :
                  StrptimeFmt(date_str, date_formats[f].sep, date_formats[f].order).ok}
    IN  IF ok = {} THEN 0 ELSE CHOOSE f \in ok : \A g \in ok : f <= g

\* the loop over the date patterns from pattern p on; "" stands for None
RECURSIVE date_pattern_loop(_, _)
date_pattern_loop(p, text) ==
    IF p > Len(date_patterns) THEN ""
    ELSE LET m == ReSearch(<<>>, date_patterns[p], <<>>, text)
         IN  IF m.found /\ FirstFormat(Group0(m, text)) # 0
             THEN LET f == date_formats[FirstFormat(Group0(m, text))]
                  IN  Strftime(StrptimeFmt(Group0(m, text), f.sep, f.order))
             ELSE date_pattern_loop(p + 1, text)

\* the expressions found in the text, by their index in the table
TemporalHits(text_lower) ==
    {i \in 1..Len(TEMPORAL_EXPRESSIONS) :
        Contains(TEMPORAL_EXPRESSIONS[i].expression, text_lower)}

\* hits are the expressions found in the lowered text and pattern_date is what
\* the loop over the date patterns gives; current is datetime.now(); ""
\* stands for None
_extract_date_with(hits, pattern_date, current) ==
    IF hits # {}
    THEN LET e == TEMPORAL_EXPRESSIONS[CHOOSE i \in hits : \A j \in hits : i <= j]
         IN  Strftime(AddDays(current, IF e.weekend THEN 5 - Weekday(current) ELSE e.days))
    ELSE pattern_date

_extract_date(text, current) ==
    _extract_date_with(TemporalHits(Lower(text)), date_pattern_loop(1, text), current)

PhoneSeps == {"-", ".", " ", "\t", "\n"}

\* PATTERNS["phone_number"]
phone_patterns ==
    << <<WordB, Cls(DigitChars, 10, 10), WordB>>,
       <<Cls({"+"}, 0, 1), Cls(DigitChars, 1, 3), Cls({"-", " ", "\t", "\n"}, 0, 1),
         Cls(DigitChars, 10, 10), WordB>>,
       <<Cls(DigitChars, 3, 3), Cls(PhoneSeps, 0, 1), Cls(DigitChars, 3, 3),
         Cls(PhoneSeps, 0, 1), Cls(DigitChars, 4, 4), WordB>> >>

\* re.sub(r'\D', '', phone)
RECURSIVE DigitsOnly(_)
DigitsOnly(phone) ==
    IF Len(phone) = 0 THEN ""
    ELSE (IF IsDigit(SubSeq(phone, 1, 1)) THEN SubSeq(phone, 1, 1) ELSE "")
         \o DigitsOnly(SubSeq(phone, 2, Len(phone)))

\* what the phonenumbers library does with a matched text for region "IN":
\* parse and is_valid_number succeed ("valid"), parse succeeds and the number
\* is not valid ("invalid"), or parse raises ("raise")
PhoneOutcomes == {"valid", "invalid", "raise"}

NoPhone == [format |-> "none", text |-> ""]

\* the text each phone pattern matches in the text, "" when it matches none
phone_search(text) ==
    [p \in 1..Len(phone_patterns) |->
        LET m == ReSearch(<<>>, phone_patterns[p], <<>>, text)
        IN  IF m.found THEN Group0(m, text) ELSE ""]

\* the loop over the phone patterns from pattern p on; found is what each
\* pattern matches and lib the library's outcome on it
RECURSIVE phone_pattern_loop(_, _, _)
phone_pattern_loop(p, found, lib) ==
    IF p > Len(phone_patterns) THEN NoPhone
    ELSE IF found[p] = "" THEN phone_pattern_loop(p + 1, found, lib)
    ELSE IF lib[p] = "valid"
    THEN [format |-> "E164", text |-> found[p]]
    ELSE IF lib[p] = "raise"
    THEN [format |-> "digits", text |-> DigitsOnly(found[p])]
    ELSE phone_pattern_loop(p + 1, found, lib)

_extract_phone(text, lib) == phone_pattern_loop(1, phone_search(text), lib)

Letters == UpperChars \cup LowerChars

\* PATTERNS["email"]
email_pattern ==
    <<WordB, Cls(Letters \cup DigitChars \cup {".", "_", "%", "+", "-"}, 1, Many),
      Lit(<<"@">>), Cls(Letters \cup DigitChars \cup {".", "-"}, 1, Many),
      Lit(<<".">>), Cls(Letters \cup {"|"}, 2, Many), WordB>>

\* "" stands for None
_extract_email(text) ==
    LET m == ReSearch(<<>>, email_pattern, <<>>, text)
    IN  IF m.found THEN Lower(Group0(m, text)) ELSE ""

\* a table of names with their keywords, in the order of the dict: the name
\* of the first entry one of whose keywords is in the text, "" when none is
FirstEntry(table, text_lower) ==
    LET hits == {i \in 1..Len(table) : AnyKeyword(table[i].keywords, text_lower)}
    IN  IF hits = {} THEN "" ELSE table[CHOOSE i \in hits : \A j \in hits : i <= j].name

ROOM_TYPES ==
    << [name |-> "single", keywords |-> <<"single", "solo", "one", "1">>],
       [name |-> "double", keywords |-> <<"double", "two", "2", "couple">>],
       [name |-> "deluxe", keywords |-> <<"deluxe", "luxury", "premium">>],
       [name |-> "suite", keywords |-> <<"suite", "executive", "family">>] >>

MEAL_TYPES ==
    << [name |-> "breakfast", keywords |-> <<"breakfast">>],
       [name |-> "lunch", keywords |-> <<"lunch">>],
       [name |-> "dinner", keywords |-> <<"dinner">>] >>

HALL_SIZES ==
    << [name |-> "small", keywords |-> <<"small", "intimate", "50">>],
       [name |-> "medium", keywords |-> <<"medium", "moderate", "150">>],
       [name |-> "large", keywords |-> <<"large", "big", "grand", "300">>] >>

_extract_room_type(text) == FirstEntry(ROOM_TYPES, Lower(text))

_extract_meal_type(text) == FirstEntry(MEAL_TYPES, Lower(text))

_extract_hall_type(text) == FirstEntry(HALL_SIZES, Lower(text))

OneOrMoreDigits == <<Cls(DigitChars, 1, Many)>>

\* the patterns of _extract_guest_count, each as pre(group 1)post
guest_count_patterns ==
    << [pre |-> <<>>,
        post |-> <<Cls(SpaceChars, 0, Many),
                   Lit(<<"people", "persons", "person", "guests", "guest", "pax">>)>>],
       [pre |-> <<Lit(<<"for">>), Cls(SpaceChars, 1, Many)>>, post |-> <<>>],
       [pre |-> <<>>,
        post |-> <<Cls(SpaceChars, 0, Many), Lit(<<"adult", "person">>)>>] >>

\* 0 stands for None; a count of 0 is dropped by `if guest_count:` as None is
_extract_guest_count(text) ==
    LET text_lower == Lower(text)
        hits == {p \in 1..Len(guest_count_patterns) :
                    ReSearch(guest_count_patterns[p].pre, OneOrMoreDigits,
                             guest_count_patterns[p].post, text_lower).found}
    IN  IF hits # {}
        THEN LET p == CHOOSE q \in hits : \A r \in hits : q <= r
             IN  ToInt(Group1(ReSearch(guest_count_patterns[p].pre, OneOrMoreDigits,
                                       guest_count_patterns[p].post, text_lower),
                              text_lower))
        ELSE IF \E w \in {"guest", "people", "person"} : Contains(w, text_lower)
        THEN LET m == ReSearch(<<WordB>>, OneOrMoreDigits, <<WordB>>, text)
             IN  IF m.found THEN ToInt(Group1(m, text)) ELSE 0
        ELSE 0

\* 0 stands for None
_extract_duration(text) ==
    LET text_lower == Lower(text)
        m == ReSearch(<<>>, OneOrMoreDigits,
                      <<Cls(SpaceChars, 0, Many), Lit(<<"hours", "hour">>)>>, text_lower)
    IN  IF m.found THEN ToInt(Group1(m, text_lower)) ELSE 0

\* [A-Z][a-z]+
CapitalizedWord == <<Cls(UpperChars, 1, 1), Cls(LowerChars, 1, Many)>>

\* the patterns of _extract_name, each as pre(group 1)
name_patterns ==
    << [pre |-> <<Lit(<<"my name is", "i am", "this is", "i'm">>), Cls(SpaceChars, 1, Many)>>,
        grp |-> CapitalizedWord
                \o <<Star(<<Cls(SpaceChars, 1, Many)>> \o CapitalizedWord)>>],
       [pre |-> <<>>,
        grp |-> CapitalizedWord \o <<Cls(SpaceChars, 1, Many)>> \o CapitalizedWord] >>

\* the loop over the name patterns from pattern p on; group 1 starts and ends
\* with a letter, so that strip() leaves it as it is
RECURSIVE name_pattern_loop(_, _)
name_pattern_loop(p, text) ==
    IF p > Len(name_patterns) THEN ""
    ELSE LET m == ReSearch(name_patterns[p].pre, name_patterns[p].grp, <<>>, text)
         IN  IF m.found /\ Lower(Group1(m, text)) \notin {"yes", "no", "thank", "please", "hello"}
             THEN Group1(m, text)
             ELSE name_pattern_loop(p + 1, text)

\* "" stands for None
_extract_name(text) == name_pattern_loop(1, text)

-----------------------------------------------------------------------------
(* EntityExtractor.extract *)

\* the date slots whose keywords are in the lowered text
keyword_slots(text_lower) ==
    (IF Contains("check", text_lower) \/ Contains("book", text_lower)
     THEN {"check_in_date"} ELSE {})
    \cup (IF \/ Contains("dining", text_lower)
             \/ Contains("dinner", text_lower)
             \/ Contains("lunch", text_lower)
          THEN {"reservation_date"} ELSE {})
    \cup (IF Contains("event", text_lower) \/ Contains("party", text_lower)
          THEN {"event_date"} ELSE {})

\* the if/elif chain over the slots whose keywords are in the text: the slot
\* the date goes to, "" when it goes to none
date_slot(slots) ==
    IF "check_in_date" \in slots THEN "check_in_date"
    ELSE IF "reservation_date" \in slots THEN "reservation_date"
    ELSE IF "event_date" \in slots THEN "event_date"
    ELSE ""

\* what the extractors find in the text, whatever the instant and the library
analyse_text(text) ==
    [phone |-> phone_search(text),
     email |-> _extract_email(text),
     hits |-> TemporalHits(Lower(text)),
     pattern_date |-> date_pattern_loop(1, text),
     slots |-> keyword_slots(Lower(text)),
     room_type |-> _extract_room_type(text),
     guest_count |-> _extract_guest_count(text),
     name |-> _extract_name(text),
     meal_type |-> _extract_meal_type(text),
     hall_type |-> _extract_hall_type(text),
     duration |-> _extract_duration(text)]

\* every keyword gives its own slot
extract_with_every_slot(a, current, lib) ==
    LET date == _extract_date_with(a.hits, a.pattern_date, current)
    IN  [k \in (IF date # "" THEN a.slots ELSE {}) |-> date]

\* the mapping extract returns: its domain is the set of slots found
extract_with(a, current, lib) ==
    LET phone == phone_pattern_loop(1, a.phone, lib)
        date == _extract_date_with(a.hits, a.pattern_date, current)
        keys == (IF phone.format # "none" THEN {"phone_number"} ELSE {})
                \cup (IF a.email # "" THEN {"email"} ELSE {})
                \cup (IF date # "" /\ date_slot(a.slots) # "" THEN {date_slot(a.slots)} ELSE {})
                \cup (IF a.room_type # "" THEN {"room_type"} ELSE {})
                \cup (IF a.guest_count # 0 THEN {"guest_count"} ELSE {})
                \cup (IF a.name # "" THEN {"guest_name", "organizer_name"} ELSE {})
                \cup (IF a.meal_type # "" THEN {"meal_type"} ELSE {})
                \cup (IF a.hall_type # "" THEN {"hall_type"} ELSE {})
                \cup (IF a.duration # 0 THEN {"duration"} ELSE {})
    IN  [k \in keys |->
            CASE k = "phone_number" -> phone
              [] k = "email" -> a.email
              [] k \in {"check_in_date", "reservation_date", "event_date"} -> date
              [] k = "room_type" -> a.room_type
              [] k = "guest_count" -> a.guest_count
              [] k \in {"guest_name", "organizer_name"} -> a.name
              [] k = "meal_type" -> a.meal_type
              [] k = "hall_type" -> a.hall_type
              [] OTHER -> a.duration]

extract(text, current, lib) == extract_with(analyse_text(text), current, lib)

-----------------------------------------------------------------------------
(* Calls of EntityExtractor.extract on its own *)

\* texts with a phone number of each shape and of no shape, with each
\* relative-time expression, with dates in each format and dates that do not
\* exist, with and without the words that choose the date slot, with an
\* address, names, room, hall and meal words, counts and durations
ExtractTexts ==
    {"", "Hello", "My phone number is 9876543210", "call +91 9876543210 please",
     "reach me at 987-654-3210", "my number is 12345", "call 0123456789",
     "book for 3 people tomorrow", "dinner the day after tomorrow",
     "party this weekend", "book a room today", "check in next week",
     "event next month for 4 hours", "book on 25/12/2026", "lunch on 2026-12-25",
     "arriving 12/25/2026", "book and dinner party tomorrow", "I will come tomorrow",
     "dinner party 31-12-2026", "book 30/02/2026", "book 5/6/26",
     "mail me at John.Doe@Example.com", "my name is John Smith", "I am Jane Doe",
     "a deluxe room for 2 guests", "large hall for 150 guests for 3 hours", "0 guests"}

\* the seven days of a week, Monday 2026-11-02 to Sunday 2026-11-08, the last
\* day of a year and the day before a 29th of February
ExtractTimes ==
    {[year |-> 2026, month |-> 11, day |-> d, second |-> 43200] : d \in 2..8}
    \cup {[year |-> 2026, month |-> 12, day |-> 31, second |-> 86399],
          [year |-> 2028, month |-> 2, day |-> 28, second |-> 0]}

\* the library answers the same on the same text, and is not asked about a
\* pattern that matches nothing; found is what each pattern matches
PhoneLibs(found) ==
    {lib \in [1..Len(phone_patterns) -> PhoneOutcomes] :
        /\ \A p \in 1..Len(phone_patterns) : found[p] = "" => lib[p] = "valid"
        /\ \A p, q \in 1..Len(phone_patterns) : found[p] = found[q] => lib[p] = lib[q]}

\* a call of extract(text) at the instant current, the library answering lib;
\* the fourth component is what the extractors find in the text
InitExtract ==
    /\ InitCall
    /\ \E t \in ExtractTexts :
           \E a \in {analyse_text(t)} :
               \E c \in ExtractTimes, lib \in PhoneLibs(a.phone) :
                   call = NewCall("extract", <<t, c, lib, a>>)

Extract ==
    /\ call.fn = "extract"
    /\ ~call.done
    /\ call' = [call EXCEPT !.done = TRUE,
                            !.value = extract_with(call.args[4], call.args[2], call.args[3])]
    /\ UNCHANGED <<sessions, pending, arrived, log, now, state, settings, classified,
                   backend_calls, db>>

SpecExtract == InitExtract /\ [][Extract]_vars

-----------------------------------------------------------------------------
(* Properties of the extractor *)

\* the phone patterns that match the text
MatchedPhonePatterns(found) == {p \in 1..Len(found) : found[p] # ""}

\* C21: whenever the text matches one of the three phone patterns, extract
\* yields a phone_number: the E.164 form when the library validates the
\* matched text for the default region, and the digits of the matched text
\* when validation fails; the number is never dropped.
C21_PhoneNeverDropped ==
    (call.fn = "extract" /\ call.done /\ MatchedPhonePatterns(call.args[4].phone) # {})
        => LET found == call.args[4].phone
               lib == call.args[3]
               p == CHOOSE q \in MatchedPhonePatterns(found) :
                        \A r \in MatchedPhonePatterns(found) : q <= r
           IN  /\ "phone_number" \in DOMAIN call.value
               /\ call.value["phone_number"] =
                      IF lib[p] = "valid"
                      THEN [format |-> "E164", text |-> found[p]]
                      ELSE [format |-> "digits", text |-> DigitsOnly(found[p])]

\* the date slots a returned mapping carries
DateSlotsOf(value) == DOMAIN value \cap date_slots

\* the call is a finished extract of a text in which the only relative-time
\* expression is the i-th of the table, with a keyword that gives it a slot
OnlyExpression(i) ==
    /\ call.fn = "extract"
    /\ call.done
    /\ call.args[4].hits = {i}
    /\ DateSlotsOf(call.value) # {}

\* C22: for every current weekday, Monday through Sunday, the date resolved
\* for "this weekend" is a Saturday and is not before the current date: it is
\* the Saturday among the current date and the six days after it.
C22_WeekendIsComingSaturday ==
    OnlyExpression(6)
        => \A k \in DateSlotsOf(call.value) :
               \E n \in 0..6 :
                   /\ Weekday(AddDays(call.args[2], n)) = 5
                   /\ call.value[k] = Strftime(AddDays(call.args[2], n))

\* the expressions of the table found in the text that are not part of a longer
\* expression of the table found in the text
WrittenExpressions(hits) ==
    {i \in hits :
        \A j \in hits :
            j = i \/ ~Contains(TEMPORAL_EXPRESSIONS[i].expression,
                               TEMPORAL_EXPRESSIONS[j].expression)}

\* C23: a message containing one of the relative-time expressions "today",
\* "tomorrow", "day after tomorrow", "next week", "next month" resolves to the
\* current date plus 0, 1, 2, 7, 30 days; an expression that contains another
\* one as a substring still resolves to its own offset.
C23_ExpressionResolvesToOwnOffset ==
    (/\ call.fn = "extract"
     /\ call.done
     /\ DateSlotsOf(call.value) # {}
     /\ \E i \in 1..5 : WrittenExpressions(call.args[4].hits) = {i})
        => LET i == CHOOSE j \in 1..5 :
                        WrittenExpressions(call.args[4].hits) = {j}
           IN  \A k \in DateSlotsOf(call.value) :
                   call.value[k] = Strftime(AddDays(call.args[2], TEMPORAL_EXPRESSIONS[i].days))

\* the date slot the keywords of the text ask for, by priority; {} when the text
\* has none of the keywords
KeywordSlots(text_lower) ==
    IF Contains("check", text_lower) \/ Contains("book", text_lower)
    THEN {"check_in_date"}
    ELSE IF \/ Contains("dining", text_lower)
            \/ Contains("dinner", text_lower)
            \/ Contains("lunch", text_lower)
    THEN {"reservation_date"}
    ELSE IF Contains("event", text_lower) \/ Contains("party", text_lower)
    THEN {"event_date"}
    ELSE {}

\* the date _extract_date resolves in the text of the call
ResolvedDate ==
    _extract_date_with(call.args[4].hits,
                       call.args[4].pattern_date, call.args[2])

\* a finished extract of a text in which a date is resolved
DateResolved ==
    /\ call.fn = "extract"
    /\ call.done
    /\ ResolvedDate # ""

\* C24: whenever extract resolves a date from a message, the date is assigned
\* to exactly one of check_in_date, reservation_date, event_date, chosen by the
\* keywords of the message with priority check/book, then dining/dinner/lunch,
\* then event/party; the result never carries two date slots.
C24_DateInExactlyOneSlot ==
    DateResolved
        => /\ Cardinality(DateSlotsOf(call.value)) = 1
           /\ DateSlotsOf(call.value) = KeywordSlots(Lower(call.args[1]))
           /\ \A k \in DateSlotsOf(call.value) :
                  call.value[k] = ResolvedDate

\* C24 as the code has it: the resolved date is assigned to the one slot the
\* keywords of the message choose by the same priority, and to no slot when
\* the message has none of the keywords; the result never carries two date
\* slots.
C24_DateInAtMostOneSlot ==
    DateResolved
        => /\ Cardinality(DateSlotsOf(call.value)) <= 1
           /\ DateSlotsOf(call.value) = KeywordSlots(Lower(call.args[1]))
           /\ \A k \in DateSlotsOf(call.value) :
                  call.value[k] = ResolvedDate

\* a message with keywords of all three groups has its date in check_in_date
C24_Witness ==
    /\ DateResolved
    /\ Contains("book", Lower(call.args[1]))
    /\ Contains("dinner", Lower(call.args[1]))
    /\ Contains("party", Lower(call.args[1]))
    /\ DateSlotsOf(call.value) = {"check_in_date"}

-----------------------------------------------------------------------------
(* process_message called on the manager with any Python value as message: *)
(* detect_language starts with text.lower(), which only a str has          *)

\* the session created before the message is analysed
process_message_value_create_first(s, user_message, session_id, timestamp) ==
    IF user_message.kind # "str"
    THEN [sessions |-> lookup_or_create(s, session_id, "en"),
          raised |-> "AttributeError", response |-> NoResponse]
    ELSE process_message_with(analysis[user_message.s], s, user_message.s, session_id, timestamp)

process_message_value(s, user_message, session_id, timestamp) ==
    IF user_message.kind # "str"
    THEN [sessions |-> s, raised |-> "AttributeError", response |-> NoResponse]
    ELSE process_message_with(analysis[user_message.s], s, user_message.s, session_id, timestamp)

\* the messages: every text of the single-turn pipeline, None and an int
TurnValues == {StrValue(t) : t \in PipelineTexts} \cup {NoneValue, IntValue(5)}

TurnValue(session_id, user_message) ==
    /\ Len(log) < MaxTurns
    /\ LET res == process_message_value(sessions, user_message, session_id, now)
       IN  /\ sessions' = res.sessions
           /\ log' = Append(log, [op |-> "process_message", id |-> Len(log) + 1,
                                  session_id |-> session_id, message |-> user_message.s,
                                  raised |-> res.raised, response |-> res.response])
    /\ UNCHANGED <<pending, arrived, now, state, settings, classified, backend_calls, call, db>>

NextTurns == \E sid \in SessionIds, m \in TurnValues : TurnValue(sid, m)

SpecTurns == Init /\ [][NextTurns]_vars

\* C26: a turn is atomic with respect to the session registry: language
\* detection, intent detection and response generation come before any
\* change of the registry, so a turn that fails leaves the registry as it was;
\* a turn that completes leaves its session with one more turn and one more
\* history record, and no session is ever seen with turn_count 0 and an
\* empty history, or with a turn_count that its history does not match.
C26_TurnIsAtomic ==
    [][Completes =>
          LET e == log'[Len(log')]
          IN  /\ e.raised # "none" => sessions' = sessions
              /\ e.raised = "none" =>
                     /\ e.session_id \in DOMAIN sessions'
                     /\ sessions'[e.session_id].turn_count =
                            (IF e.session_id \in DOMAIN sessions
                             THEN sessions[e.session_id].turn_count ELSE 0) + 1
              /\ \A sid \in DOMAIN sessions' :
                     /\ sessions'[sid].turn_count >= 1
                     /\ Len(sessions'[sid].history) = sessions'[sid].turn_count]_vars

\* a turn of a new session has failed after a turn of another session
\* completed, and the registry holds the first session only
C26_Witness ==
    /\ Len(log) = 2
    /\ log[1].raised = "none"
    /\ log[2].raised = "AttributeError"
    /\ log[2].session_id # log[1].session_id
    /\ DOMAIN sessions = {log[1].session_id}

\* the history of session sid, empty when the registry has no such session
HistoryOf(s, sid) == IF sid \in DOMAIN s THEN s[sid].history ELSE <<>>

\* C27: the conversation history of a session is append-only while the
\* session exists: each process_message appends exactly one record (user
\* text, agent text, intent, timestamp) at the end, in processing order, and
\* no step modifies, reorders, truncates or removes an earlier record.
C27_HistoryAppendOnly ==
    [][\A sid \in DOMAIN sessions' :
          LET h == HistoryOf(sessions, sid)
              h2 == sessions'[sid].history
          IN  IF /\ Completes
                 /\ IsProcess(log'[Len(log')])
                 /\ log'[Len(log')].session_id = sid
              THEN LET e == log'[Len(log')]
                   IN  /\ e.raised = "none"
                       /\ h2 = Append(h, [user |-> e.message,
                                          agent |-> e.response.message,
                                          intent |-> e.response.intent,
                                          timestamp |-> now])
              ELSE h2 = h]_vars

\* a session holds two records of different messages made at different
\* instants, in the order they were processed
C27_Witness ==
    \E sid \in DOMAIN sessions :
        /\ Len(sessions[sid].history) = 2
        /\ sessions[sid].history[1].user = "ciao hotel"
        /\ sessions[sid].history[2].user = "I want to book a room"
        /\ sessions[sid].history[1].timestamp < sessions[sid].history[2].timestamp

-----------------------------------------------------------------------------
(* The closed set of intent labels *)

\* list(self.INTENT_PATTERNS.keys()), as a set
get_all_intents == {INTENT_PATTERNS[i].intent : i \in 1..Len(INTENT_PATTERNS)}

\* C28: every result of classify, on every path (rule tier, statistical tier
\* success, statistical failure, no backend), carries an intent of the closed
\* set returned by get_all_intents, together with a confidence and a method.
C28_IntentFromClosedSet ==
    classified.calls > 0
        => /\ {"intent", "confidence", "method"} \subseteq DOMAIN classified.result
           /\ classified.result.intent \in get_all_intents

-----------------------------------------------------------------------------
(* BookingService: services/booking_service.py over the tables of          *)
(* database/models.py.  The handlers that call the service are coroutines  *)
(* of one event loop and the service never awaits, so each call runs as    *)
(* one transaction from its first query to its commit or rollback.         *)
(* Amounts are in rupees; a date column holds the midnight of a day.       *)

\* settings.ROOM_TYPES[room_type]["price"]
ROOM_TYPE_PRICES == [single |-> 1500, double |-> 2500, deluxe |-> 3500, suite |-> 5500]

\* the statuses of a booking that keep its room occupied
occupying_statuses == {"pending", "confirmed", "checked_in"}

\* (a - b).days for two midnights
DaysBetween(a, b) == Ordinal(a) - Ordinal(b)

\* a < b for two midnights
DateLT(a, b) == Ordinal(a) < Ordinal(b)

DateOf(parsed) == [year |-> parsed.year, month |-> parsed.month, day |-> parsed.day]

\* Query.first() over the rows at the positions given: 0 stands for None
First(positions) ==
    IF positions = {} THEN 0 ELSE CHOOSE i \in positions : \A j \in positions : i <= j

\* the booking conflicts with the stay [check_in, check_out) in room room_id
Conflicting(b, room_id, check_in, check_out) ==
    /\ b.room_id = room_id
    /\ b.status \in occupying_statuses
    /\ DateLT(check_in, b.check_out_date)
    /\ DateLT(b.check_in_date, check_out)

\* the position of the room found, 0 for None
_find_available_room(d, check_in, check_out, room_type) ==
    LET rooms == {i \in 1..Len(d.rooms) :
                     /\ d.rooms[i].room_type = room_type
                     /\ d.rooms[i].status = "clean"
                     /\ d.rooms[i].is_available}
        free == {i \in rooms :
                    \A k \in 1..Len(d.bookings) :
                        ~Conflicting(d.bookings[k], d.rooms[i].id, check_in, check_out)}
    IN  First(free)

\* the call raised: the transaction is rolled back and the tables are as before
Raised(d, op, error) ==
    [d EXCEPT !.calls = @ + 1, !.last = [op |-> op, raised |-> error]]

\* the call committed tables with the new rows
Committed(d, op, guests, bookings) ==
    [d EXCEPT !.calls = @ + 1, !.last = [op |-> op, raised |-> "none"],
              !.guests = guests, !.bookings = bookings]

\* booking_reference is what _generate_booking_reference returns in this call
create_booking(d, guest_name, phone, check_in_date, check_out_date, room_type, guest_count, booking_reference) ==
    LET check_in == StrptimeFmt(check_in_date, "-", "ymd")
        check_out == StrptimeFmt(check_out_date, "-", "ymd")
    IN  IF ~check_in.ok \/ ~check_out.ok
        THEN Raised(d, "create_booking", "ValueError")
        ELSE LET nights == DaysBetween(DateOf(check_out), DateOf(check_in))
                 known == First({i \in 1..Len(d.guests) : d.guests[i].phone = phone})
                 guests == IF known = 0
                           THEN Append(d.guests, [id |-> Len(d.guests) + 1,
                                                  name |-> guest_name, phone |-> phone])
                           ELSE d.guests
                 guest == IF known = 0 THEN Len(guests) ELSE known
                 room == _find_available_room(d, DateOf(check_in), DateOf(check_out), room_type)
             IN  IF nights <= 0
                 THEN Raised(d, "create_booking", "ValueError")
                 ELSE IF room = 0
                 THEN Raised(d, "create_booking", "ValueError")
                 ELSE IF room_type \notin DOMAIN ROOM_TYPE_PRICES
                 THEN Raised(d, "create_booking", "KeyError")
                 ELSE IF \E k \in 1..Len(d.bookings) :
                             d.bookings[k].booking_reference = booking_reference
                 THEN Raised(d, "create_booking", "IntegrityError")
                 ELSE LET room_rate == ROOM_TYPE_PRICES[room_type]
                          total_amount == room_rate * nights
                          tax_amount == (total_amount * 12) \div 100
                      IN  Committed(d, "create_booking", guests,
                              Append(d.bookings,
                                  [id |-> Len(d.bookings) + 1,
                                   booking_reference |-> booking_reference,
                                   guest_id |-> guests[guest].id,
                                   room_id |-> d.rooms[room].id,
                                   check_in_date |-> DateOf(check_in),
                                   check_out_date |-> DateOf(check_out),
                                   number_of_guests |-> guest_count,
                                   number_of_nights |-> nights,
                                   room_rate |-> room_rate,
                                   total_amount |-> total_amount,
                                   tax_amount |-> tax_amount,
                                   final_amount |-> total_amount + tax_amount,
                                   status |-> "confirmed",
                                   payment_status |-> "pending",
                                   source |-> "ai_agent"]))

cancel_booking(d, booking_reference) ==
    LET k == First({i \in 1..Len(d.bookings) :
                       d.bookings[i].booking_reference = booking_reference})
    IN  IF k = 0
        THEN Raised(d, "cancel_booking", "ValueError")
        ELSE IF d.bookings[k].status = "cancelled"
        THEN Raised(d, "cancel_booking", "ValueError")
        ELSE Committed(d, "cancel_booking", d.guests,
                       [d.bookings EXCEPT ![k].status = "cancelled"])

\* "" stands for a date that is not given (None)
modify_booking(d, booking_reference, new_check_in, new_check_out) ==
    LET k == First({i \in 1..Len(d.bookings) :
                       d.bookings[i].booking_reference = booking_reference})
        parsed_in == StrptimeFmt(new_check_in, "-", "ymd")
        parsed_out == StrptimeFmt(new_check_out, "-", "ymd")
    IN  IF k = 0
        THEN Raised(d, "modify_booking", "ValueError")
        ELSE IF d.bookings[k].status \notin {"pending", "confirmed"}
        THEN Raised(d, "modify_booking", "ValueError")
        ELSE IF (new_check_in # "" /\ ~parsed_in.ok) \/ (new_check_out # "" /\ ~parsed_out.ok)
        THEN Raised(d, "modify_booking", "ValueError")
        ELSE LET b == d.bookings[k]
                 check_in == IF new_check_in # "" THEN DateOf(parsed_in) ELSE b.check_in_date
                 check_out == IF new_check_out # "" THEN DateOf(parsed_out) ELSE b.check_out_date
                 nights == DaysBetween(check_out, check_in)
                 total_amount == b.room_rate * nights
                 tax_amount == (total_amount * 12) \div 100
             IN  Committed(d, "modify_booking", d.guests,
                     [d.bookings EXCEPT ![k] =
                         [b EXCEPT !.check_in_date = check_in,
                                   !.check_out_date = check_out,
                                   !.number_of_nights = nights,
                                   !.total_amount = total_amount,
                                   !.tax_amount = tax_amount,
                                   !.final_amount = total_amount + tax_amount]])

-----------------------------------------------------------------------------
(* Calls of the booking service on a small hotel *)

MaxBookingCalls == 3

\* one single room ready for guests, one not cleaned yet, one double room
\* taken out of service
SeededRooms ==
    << [id |-> 1, room_number |-> "101", room_type |-> "single", status |-> "clean",
        is_available |-> TRUE],
       [id |-> 2, room_number |-> "102", room_type |-> "single", status |-> "dirty",
        is_available |-> TRUE],
       [id |-> 3, room_number |-> "201", room_type |-> "double", status |-> "clean",
        is_available |-> FALSE] >>

\* three days across the end of a month, and a day that does not exist
BookingDates == {"2026-11-29", "2026-11-30", "2026-12-01", "2026-11-31"}

RoomTypeArgs == {"single", "double"}

\* what _generate_booking_reference may return
BookingReferences == {"BK2611021A2B", "BK2611023C4D"}

CreateBooking(check_in_date, check_out_date, room_type, booking_reference) ==
    /\ db.calls < MaxBookingCalls
    /\ db' = create_booking(db, "John Smith", "98765 43210", check_in_date, check_out_date,
                            room_type, 1, booking_reference)
    /\ UNCHANGED <<sessions, pending, arrived, log, now, state, settings, classified,
                   backend_calls, call>>

CancelBooking(booking_reference) ==
    /\ db.calls < MaxBookingCalls
    /\ db' = cancel_booking(db, booking_reference)
    /\ UNCHANGED <<sessions, pending, arrived, log, now, state, settings, classified,
                   backend_calls, call>>

ModifyBooking(booking_reference, new_check_in, new_check_out) ==
    /\ db.calls < MaxBookingCalls
    /\ db' = modify_booking(db, booking_reference, new_check_in, new_check_out)
    /\ UNCHANGED <<sessions, pending, arrived, log, now, state, settings, classified,
                   backend_calls, call>>

InitBooking ==
    /\ sessions = <<>>
    /\ pending = {}
    /\ arrived = 0
    /\ log = <<>>
    /\ now = 0
    /\ state = NewDialogueState
    /\ settings = NoSettings
    /\ classified = NoClassification
    /\ backend_calls = 0
    /\ call = NoCall
    /\ db = [NoDb EXCEPT !.rooms = SeededRooms]

NextBooking ==
    \/ \E i \in BookingDates, o \in BookingDates, t \in RoomTypeArgs, r \in BookingReferences :
           CreateBooking(i, o, t, r)
    \/ \E r \in BookingReferences : CancelBooking(r)
    \/ \E r \in BookingReferences, i \in BookingDates \cup {""}, o \in BookingDates \cup {""} :
           ModifyBooking(r, i, o)

SpecBooking == InitBooking /\ [][NextBooking]_vars

\* C29: after any sequence of create_booking, modify_booking and
\* cancel_booking calls, no two bookings of the same room whose status is
\* pending, confirmed or checked_in have overlapping stays (the check-in of
\* each before the check-out of the other).
C29_NoOverlappingStays ==
    \A i, j \in 1..Len(db.bookings) :
        (/\ i # j
         /\ db.bookings[i].room_id = db.bookings[j].room_id
         /\ db.bookings[i].status \in occupying_statuses
         /\ db.bookings[j].status \in occupying_statuses)
            => ~(/\ DateLT(db.bookings[i].check_in_date, db.bookings[j].check_out_date)
                 /\ DateLT(db.bookings[j].check_in_date, db.bookings[i].check_out_date))

\* C30: after any sequence of create_booking, modify_booking and
\* cancel_booking calls, every stored booking has its check-out date strictly
\* after its check-in date and number_of_nights at least 1 and equal to the
\* difference in days; a call that would break this raises and leaves the
\* stored bookings unchanged.
C30_StayIsAtLeastOneNight ==
    \A k \in 1..Len(db.bookings) :
        /\ DateLT(db.bookings[k].check_in_date, db.bookings[k].check_out_date)
        /\ db.bookings[k].number_of_nights >= 1
        /\ db.bookings[k].number_of_nights =
               DaysBetween(db.bookings[k].check_out_date, db.bookings[k].check_in_date)

====
